---------------------------- MODULE Spec2Model ----------------------------
(***************************************************************************)
(* Diagnostic conversation engine of plant_id:                             *)
(*   services/diagnosis_service.rs   DiagnosisService (start, update,      *)
(*                                   run_diagnosis_cycle)                  *)
(*   adapters/sandbox_executor.rs    SandboxExecutor (parse, validate,     *)
(*                                   execute_action)                       *)
(*   domain/diagnosis_session.rs     DiagnosisSession::new                 *)
(*   repositories/*.rs               the two SQL stores                    *)
(*                                                                         *)
(* JSON values are tagged records; a text returned by the AI client is a   *)
(* sequence of tokens (prose, fences, braces, whitespace, object bodies).  *)
(***************************************************************************)
EXTENDS Integers, Sequences, FiniteSets, TLC

VARIABLES plants, store, calls, now, lastFailed, fed

vars == <<plants, store, calls, now, lastFailed, fed>>

-----------------------------------------------------------------------------
(* Bounds of the model                                                     *)

MaxClock == 1
MaxHist == 3
MaxCycles == 1

SessionIds == {"s1"}
CallSlots == {"c1"}
PlantIds == {"p1", "p2"}
Users == {"local-user", "other"}
Prompts == {"leaves yellowing"}
Answers == {"a1", "a2"}

-----------------------------------------------------------------------------
(* serde_json::Value                                                       *)

JNull == [t |-> "null"]

JStr(s) == [t |-> "str", s |-> s]

JNum(n) == [t |-> "num", n |-> n]

JArr(a) == [t |-> "arr", a |-> a]

JBool(b) == [t |-> "bool", b |-> b]

JObj(o) == [t |-> "obj", o |-> o]

EmptyMap == [k \in {} |-> JNull]

\* Value indexing by key: value["key"] is Null for a missing key and for
\* a value that is not an object.
Index(v, k) == IF v.t = "obj" /\ k \in DOMAIN v.o THEN v.o[k] ELSE JNull

\* Faulty test: nothing is taken for Null.
is_null_Never(v) == FALSE

is_null(v) == v.t = "null"

is_object(v) == v.t = "obj"

\* Value::as_str: Some for a string (the empty string included), else None.
is_str(v) == v.t = "str"

-----------------------------------------------------------------------------
(* domain/enums.rs                                                         *)

PendingUserInput == "PENDING_USER_INPUT"

Completed == "COMPLETED"

Cancelled == "CANCELLED"

DiagnosisStatus == {PendingUserInput, Completed, Cancelled}

DiagnosisAction == {"GET_PLANT_VITALS", "LOG_STATE", "ASK_USER", "CONCLUDE"}

\* DiagnosisAction::from_str: Some for the four names, None otherwise.
DiagnosisAction_from_str(s) == s \in DiagnosisAction

-----------------------------------------------------------------------------
(* Texts returned by the AI client.  A text is a sequence of tokens: "ws"  *)
(* is whitespace, "prose" is a word without fences or braces, Fence is a   *)
(* triple backquote, FenceJson a triple backquote followed by json, "{"    *)
(* and "}" are the braces and every other token names the fields written   *)
(* between the braces of an object.                                        *)

Ws == "ws"

Fence == "FENCE"

FenceJson == "FENCE_JSON"

\* The fields between the outer braces of the objects the AI client sends.
Bodies ==
  [ ask_q1      |-> [action |-> JStr("ASK_USER"),
                     payload |-> JObj([question |-> JStr("q1")])],
    ask_q2      |-> [action |-> JStr("ASK_USER"),
                     payload |-> JObj([question |-> JStr("q2")])],
    conclude_f1 |-> [action |-> JStr("CONCLUDE"),
                     payload |-> JObj([finding |-> JStr("f1"),
                                       recommendation |-> JStr("r1")])],
    log_h1      |-> [action |-> JStr("LOG_STATE"),
                     payload |-> JObj([hypothesis |-> JStr("h1")])],
    log_ip      |-> [action |-> JStr("LOG_STATE"),
                     payload |-> JObj([initial_prompt |-> JStr("roots rotting"),
                                       plant_id |-> JStr("p2")])],
    log_top     |-> [action |-> JStr("LOG_STATE"),
                     payload |-> JObj([result |-> JObj([finding |-> JStr("f9"),
                                                        recommendation |-> JStr("r9")]),
                                       conversation_history |-> JArr(<<>>),
                                       plant_vitals |-> JNull,
                                       initial_prompt |-> JStr("roots rotting"),
                                       status |-> JStr("COMPLETED")])],
    bad_null    |-> [action |-> JStr("WATER_PLANT"), payload |-> JNull],
    bad_nop     |-> [action |-> JStr("WATER_PLANT")],
    log_h2c     |-> [action |-> JStr("LOG_STATE"),
                     payload |-> JObj([hypothesis |-> JStr("h2"),
                                       confidence |-> JNum(7)])],
    vitals      |-> [action |-> JStr("GET_PLANT_VITALS"),
                     payload |-> JObj(EmptyMap)],
    bad_action  |-> [action |-> JStr("WATER_PLANT"),
                     payload |-> JObj(EmptyMap)],
    no_payload  |-> [action |-> JStr("ASK_USER")],
    ask_noq     |-> [action |-> JStr("ASK_USER"),
                     payload |-> JObj(EmptyMap)],
    log_empty   |-> [action |-> JStr("LOG_STATE"),
                     payload |-> JObj(EmptyMap)],
    ask_empty   |-> [action |-> JStr("ASK_USER"),
                     payload |-> JObj([question |-> JStr("")])],
    ask_num     |-> [action |-> JStr("ASK_USER"),
                     payload |-> JObj([question |-> JNum(5)])],
    ask_qf      |-> [action |-> JStr("ASK_USER"),
                     payload |-> JObj([question |-> JStr("q FENCE q")])],
    ask_null    |-> [action |-> JStr("ASK_USER"), payload |-> JNull],
    conclude_nof |-> [action |-> JStr("CONCLUDE"),
                      payload |-> JObj([recommendation |-> JStr("r1")])],
    conclude_nor |-> [action |-> JStr("CONCLUDE"),
                      payload |-> JObj([finding |-> JStr("f1")])],
    conclude_ef |-> [action |-> JStr("CONCLUDE"),
                     payload |-> JObj([finding |-> JStr(""),
                                       recommendation |-> JStr("r1")])],
    conclude_er |-> [action |-> JStr("CONCLUDE"),
                     payload |-> JObj([finding |-> JStr("f1"),
                                       recommendation |-> JStr("")])],
    conclude_numf |-> [action |-> JStr("CONCLUDE"),
                       payload |-> JObj([finding |-> JNum(1),
                                         recommendation |-> JStr("r1")])],
    conclude_numr |-> [action |-> JStr("CONCLUDE"),
                       payload |-> JObj([finding |-> JStr("f1"),
                                         recommendation |-> JBool(TRUE)])],
    conclude_nop |-> [action |-> JStr("CONCLUDE")],
    conclude_null |-> [action |-> JStr("CONCLUDE"), payload |-> JNull],
    log_arr     |-> [action |-> JStr("LOG_STATE"),
                     payload |-> JArr(<<JStr("h1")>>)],
    log_str     |-> [action |-> JStr("LOG_STATE"), payload |-> JStr("h1")],
    log_num     |-> [action |-> JStr("LOG_STATE"), payload |-> JNum(3)],
    log_bool    |-> [action |-> JStr("LOG_STATE"), payload |-> JBool(FALSE)],
    log_nop     |-> [action |-> JStr("LOG_STATE")],
    log_null    |-> [action |-> JStr("LOG_STATE"), payload |-> JNull],
    vitals_str  |-> [action |-> JStr("GET_PLANT_VITALS"), payload |-> JStr("x")],
    vitals_nop  |-> [action |-> JStr("GET_PLANT_VITALS")],
    vitals_null |-> [action |-> JStr("GET_PLANT_VITALS"), payload |-> JNull],
    lower_action |-> [action |-> JStr("ask_user"),
                      payload |-> JObj([question |-> JStr("q1")])],
    num_action  |-> [action |-> JNum(1),
                     payload |-> JObj([question |-> JStr("q1")])],
    no_action   |-> [payload |-> JObj([question |-> JStr("q1")])],
    nothing     |-> EmptyMap ]

\* Tokens that are a complete JSON value on their own.
Scalars == [num42 |-> JNum(42)]

\* What is written between the braces of an object: one token, but for
\* the object whose question string holds a triple backquote, which is
\* the text before it, the backquotes and the text after it.
Written(b) == IF b = "ask_qf" THEN <<"ask_qf_head", Fence, "ask_qf_tail">> ELSE <<b>>

Bare(b) == <<"{">> \o Written(b) \o <<"}">>

Tagged(b) == <<"prose", Ws, FenceJson, Ws>> \o Bare(b) \o <<Ws, Fence, Ws>>

Untagged(b) == <<"prose", Ws, Fence, Ws>> \o Bare(b) \o <<Ws, Fence, Ws>>

\* The object between two words without braces or fences.
InProse(b) == <<"prose", Ws>> \o Bare(b) \o <<Ws, "prose">>

\* The texts the AI client returns in the model.
AiTexts ==
  { Bare("ask_q1"), Tagged("ask_q1"), Bare("conclude_f1"), Bare("log_h1"),
    Bare("log_h2c"), Bare("vitals"), Bare("ask_noq"), <<"prose">> }

\* The replies of AiAdapter::generate_diagnosis_response: Err or Ok(text).
AiReplies == { [ok |-> FALSE] } \cup { [ok |-> TRUE, text |-> t] : t \in AiTexts }

Min(S) == CHOOSE x \in S : \A y \in S : x <= y

Max(S) == CHOOSE x \in S : \A y \in S : y <= x

\* Index of the first token of s in T, 0 if there is none (str::find).
FirstIdx(s, T) ==
  IF \E i \in 1..Len(s) : s[i] \in T
    THEN Min({ i \in 1..Len(s) : s[i] \in T })
    ELSE 0

\* Index of the last token of s in T, 0 if there is none (str::rfind).
LastIdx(s, T) ==
  IF \E i \in 1..Len(s) : s[i] \in T
    THEN Max({ i \in 1..Len(s) : s[i] \in T })
    ELSE 0

\* str::contains
Contains(s, T) == FirstIdx(s, T) # 0

\* Faulty split: nth(0), what precedes the first occurrence of pat.
SplitNth0(s, T) == SubSeq(s, 1, FirstIdx(s, T) - 1)

\* s.split(pat).nth(1): what follows the first occurrence of pat, up to
\* the next occurrence of pat (None, here <<>>, is excluded by Contains).
SplitNth1(s, T) ==
  LET rest == SubSeq(s, FirstIdx(s, T) + 1, Len(s))
  IN  IF Contains(rest, T) THEN SubSeq(rest, 1, FirstIdx(rest, T) - 1) ELSE rest

\* s.split(pat).next(): what precedes the first occurrence of pat.
SplitNext(s, T) == IF Contains(s, T) THEN SubSeq(s, 1, FirstIdx(s, T) - 1) ELSE s

\* str::trim
Trim(s) ==
  LET keep == { i \in 1..Len(s) : s[i] # Ws }
  IN  IF keep = {} THEN <<>> ELSE SubSeq(s, Min(keep), Max(keep))

\* serde_json::from_str::<Value>: leading and trailing whitespace is
\* allowed, anything else around the one value is an error.
from_str(s) ==
  LET t == Trim(s)
  IN  IF Len(t) = 3 /\ t[2] \in DOMAIN Bodies /\ t = Bare(t[2])
        THEN [ok |-> TRUE, value |-> JObj(Bodies[t[2]])]
      ELSE IF t = Bare("ask_qf")
        THEN [ok |-> TRUE, value |-> JObj(Bodies["ask_qf"])]
      ELSE IF Len(t) = 1 /\ t[1] \in DOMAIN Scalars
        THEN [ok |-> TRUE, value |-> Scalars[t[1]]]
      ELSE [ok |-> FALSE]

ParseErr(msg) == [ok |-> FALSE, err |-> msg]

\* The tagged fence begins with the three backquotes of the untagged one,
\* so both tokens match the untagged pattern.
AnyFence == {Fence, FenceJson}

\* Faulty extractor: any fence is looked for before the tagged one.
parse_ai_response_UntaggedFirst(response) ==
  IF from_str(response).ok THEN from_str(response)
  ELSE IF Contains(response, AnyFence)
    THEN LET extracted == Trim(SplitNext(SplitNth1(response, AnyFence), AnyFence))
         IN  IF from_str(extracted).ok THEN from_str(extracted)
             ELSE ParseErr("Failed to parse JSON from code block")
  ELSE LET start == FirstIdx(response, {"{"})
           end == LastIdx(response, {"}"})
       IN  IF start # 0 /\ end # 0 /\ start > end + 1
             THEN ParseErr("panicked: slice index starts after its end")
           ELSE IF start # 0 /\ end # 0
                /\ from_str(SubSeq(response, start, end)).ok
             THEN from_str(SubSeq(response, start, end))
           ELSE ParseErr("Could not parse AI response as valid JSON")

\* SandboxExecutor::parse_ai_response
parse_ai_response(response) ==
  IF from_str(response).ok THEN from_str(response)
  ELSE IF Contains(response, {FenceJson})
    THEN LET extracted == Trim(SplitNext(SplitNth1(response, {FenceJson}), AnyFence))
         IN  IF from_str(extracted).ok THEN from_str(extracted)
             ELSE ParseErr("Failed to parse JSON from markdown block")
  ELSE IF Contains(response, AnyFence)
    THEN LET extracted == Trim(SplitNext(SplitNth1(response, AnyFence), AnyFence))
         IN  IF from_str(extracted).ok THEN from_str(extracted)
             ELSE ParseErr("Failed to parse JSON from code block")
  ELSE LET start == FirstIdx(response, {"{"})
           end == LastIdx(response, {"}"})
       IN  IF start # 0 /\ end # 0 /\ start > end + 1
             \* &response[start..=end] with the last "}" before the first "{"
             THEN ParseErr("panicked: slice index starts after its end")
           ELSE IF start # 0 /\ end # 0
                /\ from_str(SubSeq(response, start, end)).ok
             THEN from_str(SubSeq(response, start, end))
           ELSE ParseErr("Could not parse AI response as valid JSON")

\* Faulty validation: GET_PLANT_VITALS is held to the rule of LOG_STATE.
validate_payload_VitalsAsLog(action, payload) ==
  CASE action \in {"GET_PLANT_VITALS", "LOG_STATE"} ->
         IF ~is_object(payload) \/ DOMAIN payload.o = {}
           THEN "LOG_STATE payload must be a non-empty object"
           ELSE "ok"
    [] action = "ASK_USER" ->
         IF is_str(Index(payload, "question")) THEN "ok"
           ELSE "ASK_USER payload must contain a question string"
    [] action = "CONCLUDE" ->
         IF ~is_str(Index(payload, "finding"))
           THEN "CONCLUDE payload must contain a finding string"
         ELSE IF ~is_str(Index(payload, "recommendation"))
           THEN "CONCLUDE payload must contain a recommendation string"
         ELSE "ok"

\* Faulty validation: a LOG_STATE payload may be an object without keys.
validate_payload_AcceptsEmptyLog(action, payload) ==
  CASE action = "GET_PLANT_VITALS" -> "ok"
    [] action = "LOG_STATE" ->
         IF ~is_object(payload)
           THEN "LOG_STATE payload must be a non-empty object"
           ELSE "ok"
    [] action = "ASK_USER" ->
         IF is_str(Index(payload, "question")) THEN "ok"
           ELSE "ASK_USER payload must contain a question string"
    [] action = "CONCLUDE" ->
         IF ~is_str(Index(payload, "finding"))
           THEN "CONCLUDE payload must contain a finding string"
         ELSE IF ~is_str(Index(payload, "recommendation"))
           THEN "CONCLUDE payload must contain a recommendation string"
         ELSE "ok"

\* SandboxExecutor::validate_payload: "ok" or the error message.
validate_payload(action, payload) ==
  CASE action = "GET_PLANT_VITALS" -> "ok"
    [] action = "LOG_STATE" ->
         IF ~is_object(payload) \/ DOMAIN payload.o = {}
           THEN "LOG_STATE payload must be a non-empty object"
           ELSE "ok"
    [] action = "ASK_USER" ->
         IF is_str(Index(payload, "question")) THEN "ok"
           ELSE "ASK_USER payload must contain a question string"
    [] action = "CONCLUDE" ->
         IF ~is_str(Index(payload, "finding"))
           THEN "CONCLUDE payload must contain a finding string"
         ELSE IF ~is_str(Index(payload, "recommendation"))
           THEN "CONCLUDE payload must contain a recommendation string"
         ELSE "ok"

\* Faulty execute_code: the payload is looked for before the action.
execute_code_PayloadFirst(code) ==
  LET parsed == parse_ai_response(code)
  IN  IF ~parsed.ok THEN parsed
      ELSE LET response == parsed.value
               action_v == Index(response, "action")
               payload == Index(response, "payload")
           IN  IF is_null(payload)
                 THEN ParseErr("Missing payload field in AI response")
               ELSE IF ~is_str(action_v)
                 THEN ParseErr("Missing action field in AI response")
               ELSE IF ~DiagnosisAction_from_str(action_v.s)
                 THEN ParseErr("Invalid action")
               ELSE IF validate_payload(action_v.s, payload) # "ok"
                 THEN ParseErr(validate_payload(action_v.s, payload))
               ELSE [ok |-> TRUE, action |-> action_v.s, payload |-> payload]

\* SandboxExecutor::execute_code: Ok(ExecutionResult{action, payload}) or
\* the error of the first check that fails.
execute_code(code) ==
  LET parsed == parse_ai_response(code)
  IN  IF ~parsed.ok THEN parsed
      ELSE LET response == parsed.value
               action_v == Index(response, "action")
               payload == Index(response, "payload")
           IN  IF ~is_str(action_v)
                 THEN ParseErr("Missing action field in AI response")
               ELSE IF ~DiagnosisAction_from_str(action_v.s)
                 THEN ParseErr("Invalid action")
               ELSE IF is_null(payload)
                 THEN ParseErr("Missing payload field in AI response")
               ELSE IF validate_payload(action_v.s, payload) # "ok"
                 THEN ParseErr(validate_payload(action_v.s, payload))
               ELSE [ok |-> TRUE, action |-> action_v.s, payload |-> payload]

-----------------------------------------------------------------------------
(* domain/diagnosis_session.rs and the two repositories                    *)

UserTurn(m) == [role |-> "user", message |-> m]

AssistantTurn(m) == [role |-> "assistant", message |-> m]

\* Faulty constructor: the history is not seeded with the prompt.
DiagnosisSession_new_EmptyHistory(id, plant_id, initial_prompt, t) ==
  [ id |-> id,
    plant_id |-> plant_id,
    status |-> PendingUserInput,
    diagnosis_context |->
      [ initial_prompt |-> initial_prompt,
        conversation_history |-> <<>>,
        state |-> EmptyMap,
        plant_vitals |-> JNull ],
    created_at |-> t,
    updated_at |-> t ]

\* DiagnosisSession::new; the context has no "result" key.
DiagnosisSession_new(id, plant_id, initial_prompt, t) ==
  [ id |-> id,
    plant_id |-> plant_id,
    status |-> PendingUserInput,
    diagnosis_context |->
      [ initial_prompt |-> initial_prompt,
        conversation_history |-> <<UserTurn(initial_prompt)>>,
        state |-> EmptyMap,
        plant_vitals |-> JNull ],
    created_at |-> t,
    updated_at |-> t ]

\* Faulty lookup: the owner is not looked at.
plant_found_AnyOwner(ps, id, user_id) == id \in DOMAIN ps

\* PlantRepository::get_by_id: WHERE id = ? AND user_id = ?
plant_found(ps, id, user_id) == id \in DOMAIN ps /\ ps[id].user_id = user_id

\* json!({"name": plant.name, "care_schedule": plant.care_schedule})
Vitals(plant) == [name |-> plant.name, care_schedule |-> plant.care_schedule]

\* context.insert(key, value) on the context object
Insert(context, key, value) ==
  [k \in DOMAIN context \cup {key} |-> IF k = key THEN value ELSE context[k]]

\* PlantRepository::update: UPDATE plants SET name, care_schedule, ..
\* WHERE id = ?; a missing row is left missing.
plant_repo_update(ps, id, name, care_schedule) ==
  [p \in DOMAIN ps |->
     IF p = id THEN [ps[p] EXCEPT !.name = name, !.care_schedule = care_schedule]
               ELSE ps[p]]

\* PlantRepository::delete: DELETE FROM plants WHERE id = ? AND user_id = ?
plant_repo_delete(ps, id, user_id) ==
  [p \in { q \in DOMAIN ps : ~(q = id /\ ps[q].user_id = user_id) } |-> ps[p]]

\* diagnosis_sessions: FOREIGN KEY (plant_id) REFERENCES plants(id) ON
\* DELETE CASCADE; the sessions of a plant that is no longer stored go.
cascade(st, ps) ==
  [i \in { j \in DOMAIN st : st[j].plant_id \in DOMAIN ps } |-> st[i]]

\* DateTime::to_rfc3339 of a clock value, as character codes.  The clock
\* counts half seconds: two digits of seconds, the fraction .500 only when
\* there is one, then the offset sign.
to_rfc3339(t) ==
  <<48 + ((t \div 2) \div 10), 48 + ((t \div 2) % 10)>>
    \o (IF t % 2 = 0 THEN <<>> ELSE <<46, 53, 48, 48>>)
    \o <<43>>

\* The comparison of two TEXT values by SQLite: the first character that
\* differs decides, a proper prefix comes first.
TextLess(a, b) ==
  \E k \in 1..Len(b) :
    /\ \A j \in 1..(k - 1) : j <= Len(a) /\ a[j] = b[j]
    /\ k > Len(a) \/ a[k] < b[k]

RECURSIVE Orderings(_)
\* The sequences that hold every element of a set once.
Orderings(S) ==
  IF S = {} THEN { <<>> }
  ELSE UNION { { <<x>> \o q : q \in Orderings(S \ {x}) } : x \in S }

\* Faulty listing: oldest first.
get_all_by_plant_id_Ascending(st, plant_id) ==
  { q \in Orderings({ st[i] : i \in { j \in DOMAIN st : st[j].plant_id = plant_id } }) :
      \A k \in 1..(Len(q) - 1) :
        ~TextLess(to_rfc3339(q[k + 1].created_at), to_rfc3339(q[k].created_at)) }

\* DiagnosisRepository::get_all_by_plant_id: SELECT ... WHERE plant_id = ?
\* ORDER BY created_at DESC over the stored text; the results the query
\* can give, rows of equal created_at in either order.
get_all_by_plant_id(st, plant_id) ==
  { q \in Orderings({ st[i] : i \in { j \in DOMAIN st : st[j].plant_id = plant_id } }) :
      \A k \in 1..(Len(q) - 1) :
        ~TextLess(to_rfc3339(q[k].created_at), to_rfc3339(q[k + 1].created_at)) }

\* DiagnosisRepository::create: INSERT of the whole row
repo_create(st, session) ==
  [i \in DOMAIN st \cup {session.id} |-> IF i = session.id THEN session ELSE st[i]]

\* DiagnosisRepository::delete: DELETE FROM diagnosis_sessions WHERE id = ?
repo_delete(st, id) == [i \in DOMAIN st \ {id} |-> st[i]]

\* Faulty update: the WHERE clause is missing.
repo_update_AllRows(st, session) ==
  [i \in DOMAIN st |->
     [st[i] EXCEPT !.status = session.status,
                   !.diagnosis_context = session.diagnosis_context,
                   !.updated_at = session.updated_at]]

\* Faulty update: a row that is COMPLETED is not written again.
repo_update_KeepsCompleted(st, session) ==
  [i \in DOMAIN st |->
     IF i = session.id /\ st[i].status # Completed
       THEN [st[i] EXCEPT !.status = session.status,
                          !.diagnosis_context = session.diagnosis_context,
                          !.updated_at = session.updated_at]
       ELSE st[i]]

\* DiagnosisRepository::update: UPDATE ... SET status, diagnosis_context,
\* updated_at WHERE id = ?; a missing row is left missing.
repo_update(st, session) ==
  [i \in DOMAIN st |->
     IF i = session.id
       THEN [st[i] EXCEPT !.status = session.status,
                          !.diagnosis_context = session.diagnosis_context,
                          !.updated_at = session.updated_at]
       ELSE st[i]]

-----------------------------------------------------------------------------
(* SandboxExecutor::execute_action and the arms of run_diagnosis_cycle     *)

\* Faulty merge: the payload replaces the state.
MergeState_Replaces(state, payload_obj) == payload_obj

\* The LOG_STATE arm of execute_action: state_obj.insert(key, value) for
\* every entry of the payload.
MergeState(state, payload_obj) ==
  [k \in DOMAIN state \cup DOMAIN payload_obj |->
     IF k \in DOMAIN payload_obj THEN payload_obj[k] ELSE state[k]]

\* Faulty execute_action: a result object in a LOG_STATE payload is also
\* inserted as the result of the context.
execute_action_LogsResult(result, context) ==
  CASE result.action = "GET_PLANT_VITALS" ->
         [effect |-> [kind |-> "FetchPlantVitals"], context |-> context]
    [] result.action = "LOG_STATE" ->
         [effect |-> [kind |-> "Continue"],
          context |->
            IF is_object(Index(result.payload, "result"))
              THEN Insert([context EXCEPT
                             !.state = MergeState(context.state, result.payload.o)],
                          "result",
                          [finding |-> "f9", recommendation |-> "r9"])
              ELSE [context EXCEPT
                      !.state = MergeState(context.state, result.payload.o)]]
    [] result.action = "ASK_USER" ->
         [effect |-> [kind |-> "AskUser",
                      question |-> Index(result.payload, "question").s],
          context |-> context]
    [] result.action = "CONCLUDE" ->
         [effect |-> [kind |-> "Conclude",
                      finding |-> Index(result.payload, "finding").s,
                      recommendation |-> Index(result.payload, "recommendation").s],
          context |-> context]

\* Faulty execute_action: a LOG_STATE payload with an initial_prompt string
\* is also written over the initial_prompt of the context.
execute_action_LogsOverPrompt(result, context) ==
  CASE result.action = "GET_PLANT_VITALS" ->
         [effect |-> [kind |-> "FetchPlantVitals"], context |-> context]
    [] result.action = "LOG_STATE" ->
         [effect |-> [kind |-> "Continue"],
          context |-> [context EXCEPT
                         !.state = MergeState(context.state, result.payload.o),
                         !.initial_prompt =
                            IF is_str(Index(result.payload, "initial_prompt"))
                              THEN Index(result.payload, "initial_prompt").s
                              ELSE @]]
    [] result.action = "ASK_USER" ->
         [effect |-> [kind |-> "AskUser",
                      question |-> Index(result.payload, "question").s],
          context |-> context]
    [] result.action = "CONCLUDE" ->
         [effect |-> [kind |-> "Conclude",
                      finding |-> Index(result.payload, "finding").s,
                      recommendation |-> Index(result.payload, "recommendation").s],
          context |-> context]

\* SandboxExecutor::execute_action: the effect and the context it leaves.
execute_action(result, context) ==
  CASE result.action = "GET_PLANT_VITALS" ->
         [effect |-> [kind |-> "FetchPlantVitals"], context |-> context]
    [] result.action = "LOG_STATE" ->
         [effect |-> [kind |-> "Continue"],
          context |-> [context EXCEPT
                         !.state = MergeState(context.state, result.payload.o)]]
    [] result.action = "ASK_USER" ->
         [effect |-> [kind |-> "AskUser",
                      question |-> Index(result.payload, "question").s],
          context |-> context]
    [] result.action = "CONCLUDE" ->
         [effect |-> [kind |-> "Conclude",
                      finding |-> Index(result.payload, "finding").s,
                      recommendation |-> Index(result.payload, "recommendation").s],
          context |-> context]

\* Faulty push: the history is rebuilt from the new message.
PushUserMessage_Replaces(context, message) ==
  [context EXCEPT !.conversation_history = <<UserTurn(message)>>]

\* update_diagnosis: history_array.push({"role": "user", "message": ..})
PushUserMessage(context, message) ==
  [context EXCEPT !.conversation_history = Append(@, UserTurn(message))]

\* Faulty check: every status is let through.
StatusIsPending_Skipped(session) == TRUE

\* update_diagnosis: the status check, TRUE when the call may go on.
StatusIsPending(session) == session.status = PendingUserInput

\* Faulty Continue arm: the logged state is also noted in the history.
ApplyContinue_AddsTurn(session, t) ==
  [session EXCEPT
     !.diagnosis_context.conversation_history = Append(@, AssistantTurn("noted")),
     !.updated_at = t]

\* Faulty Continue arm: updated_at is left as it was.
ApplyContinue_KeepsTime(session, t) == session

\* The Continue arm: only updated_at is refreshed.
ApplyContinue(session, t) == [session EXCEPT !.updated_at = t]

\* Faulty FetchPlantVitals arm: vitals that are present are kept.
ApplyFetchPlantVitals_KeepsPresent(session, plant, t) ==
  [session EXCEPT
     !.diagnosis_context =
        IF @.plant_vitals = JNull THEN Insert(@, "plant_vitals", Vitals(plant)) ELSE @,
     !.updated_at = t]

\* The FetchPlantVitals arm, once the plant is found.
ApplyFetchPlantVitals(session, plant, t) ==
  [session EXCEPT
     !.diagnosis_context = Insert(@, "plant_vitals", Vitals(plant)),
     !.updated_at = t]

\* Faulty AskUser arm: the question is stored as a user turn.
ApplyAskUser_UserRole(session, question, t) ==
  [session EXCEPT
     !.diagnosis_context.conversation_history = Append(@, UserTurn(question)),
     !.status = PendingUserInput,
     !.updated_at = t]

\* The AskUser arm.
ApplyAskUser(session, question, t) ==
  [session EXCEPT
     !.diagnosis_context.conversation_history = Append(@, AssistantTurn(question)),
     !.status = PendingUserInput,
     !.updated_at = t]

\* Faulty Conclude arm: the session is closed as cancelled.
ApplyConclude_Cancels(session, finding, recommendation, t) ==
  [session EXCEPT
     !.diagnosis_context =
        Insert(@, "result", [finding |-> finding, recommendation |-> recommendation]),
     !.status = Cancelled,
     !.updated_at = t]

\* Faulty Conclude arm: the status is left as it was.
ApplyConclude_KeepsStatus(session, finding, recommendation, t) ==
  [session EXCEPT
     !.diagnosis_context =
        Insert(@, "result", [finding |-> finding, recommendation |-> recommendation]),
     !.updated_at = t]

\* Faulty Conclude arm: finding and recommendation change places.
ApplyConclude_Swapped(session, finding, recommendation, t) ==
  [session EXCEPT
     !.diagnosis_context =
        Insert(@, "result", [finding |-> recommendation, recommendation |-> finding]),
     !.status = Completed,
     !.updated_at = t]

\* The Conclude arm.
ApplyConclude(session, finding, recommendation, t) ==
  [session EXCEPT
     !.diagnosis_context =
        Insert(@, "result", [finding |-> finding, recommendation |-> recommendation]),
     !.status = Completed,
     !.updated_at = t]

\* Faulty response: the id of another session is returned.
AskResponse_OtherId(id, question) ==
  [type |-> "ask", diagnosis_id |-> IF id = "s2" THEN "s1" ELSE "s2",
   question |-> question]

\* DiagnosisResponseDto
AskResponse(id, question) ==
  [type |-> "ask", diagnosis_id |-> id, question |-> question]

ConcludeResponse(id, finding, recommendation) ==
  [type |-> "conclude", diagnosis_id |-> id,
   finding |-> finding, recommendation |-> recommendation]

\* Err(anyhow) returned by a call
ErrResponse(msg) == [type |-> "error", error |-> msg]

-----------------------------------------------------------------------------
(* State.                                                                  *)
(*   plants      the plants table: id -> row                               *)
(*   store       the diagnosis_sessions table: id -> row                   *)
(*   calls       per caller slot, the start/update call in progress:       *)
(*               "idle", "running" (before an AI call of a cycle),         *)
(*               "done" (a cycle ended the call), "rejected" (the entry    *)
(*               checks ended it)                                          *)
(*   now         the clock read by Utc::now()                              *)
(*   lastFailed  per session, the answer and the first context sent to     *)
(*               the AI client by the update call that failed last, until  *)
(*               the next update call on the session                       *)
(*   fed         per caller slot, the reply of the AI client to the latest *)
(*               cycle of the call in progress and what the extractor made *)
(*               of its text                                               *)
(* A running call carries the session it owns in memory ("session"), the   *)
(* row as it was stored when the call began its cycles ("pre"), the        *)
(* numbers of AI calls and of persists it made, the first context it sent  *)
(* and the instruction validated by its latest cycle.                      *)

Idle == [pc |-> "idle"]

NoResponse == [type |-> "none"]

NoInstruction == [ok |-> FALSE, err |-> "none"]

NoFailure == [failed |-> FALSE]

NoContext == [sent |-> FALSE]

NoReply == [given |-> FALSE]

\* What a cycle is given by the AI client, with the value the extractor
\* pulls out of the text.
Fed(reply) ==
  IF reply.ok
    THEN [given |-> TRUE, ok |-> TRUE, text |-> reply.text,
          parsed |-> parse_ai_response(reply.text)]
    ELSE [given |-> TRUE, ok |-> FALSE]

InFlight(c) == calls[c].pc = "running"

\* The session a call slot is working on, "" when there is none.
SessionOf(c) == IF calls[c].pc \in {"running", "done"} THEN calls[c].session.id ELSE ""

Rejected(kind, target, user_id, msg) ==
  [pc |-> "rejected", kind |-> kind, target |-> target, user_id |-> user_id,
   nAi |-> 0, nPersist |-> 0, response |-> ErrResponse(msg)]

Entered(kind, user_id, message, session, pre, retryOf) ==
  [pc |-> "running", kind |-> kind, user_id |-> user_id, message |-> message,
   session |-> session, pre |-> pre, nAi |-> 0, nPersist |-> 0,
   firstSent |-> NoContext, retryOf |-> retryOf, last |-> NoInstruction,
   response |-> NoResponse]

Init ==
  /\ plants = [p \in {"p1"} |->
                 [user_id |-> "local-user", name |-> "n1", care_schedule |-> "cs1"]]
  /\ store = [i \in {} |-> Idle]
  /\ calls = [c \in CallSlots |-> Idle]
  /\ now = 0
  /\ lastFailed = [i \in SessionIds |-> NoFailure]
  /\ fed = [c \in CallSlots |-> NoReply]

\* DiagnosisService::start_diagnosis up to the call of run_diagnosis_cycle
StartDiagnosis(c, plant_id, prompt, user_id) ==
  /\ calls[c] = Idle
  /\ IF ~plant_found(plants, plant_id, user_id)
       THEN /\ calls' = [calls EXCEPT ![c] =
                           Rejected("start", plant_id, user_id, "Plant not found")]
            /\ UNCHANGED store
       ELSE \E id \in SessionIds \ DOMAIN store :
              LET fresh == DiagnosisSession_new(id, plant_id, prompt, now)
                  session == [fresh EXCEPT !.diagnosis_context =
                                Insert(@, "plant_vitals", Vitals(plants[plant_id]))]
              IN  /\ store' = repo_create(store, session)
                  /\ calls' = [calls EXCEPT ![c] =
                                 Entered("start", user_id, prompt, session,
                                         session, NoFailure)]
  /\ UNCHANGED <<plants, now, lastFailed, fed>>

\* DiagnosisService::update_diagnosis up to the call of run_diagnosis_cycle:
\* the session is loaded, checked, and the answer is pushed in memory.
update_diagnosis(c, diagnosis_id, message, user_id) ==
  /\ calls[c] = Idle
  /\ IF diagnosis_id \notin DOMAIN store
       THEN /\ calls' = [calls EXCEPT ![c] =
                 Rejected("update", diagnosis_id, user_id, "Diagnosis session not found")]
            /\ UNCHANGED lastFailed
     ELSE IF ~plant_found(plants, store[diagnosis_id].plant_id, user_id)
       THEN /\ calls' = [calls EXCEPT ![c] =
                 Rejected("update", diagnosis_id, user_id, "Unauthorized access to diagnosis")]
            /\ UNCHANGED lastFailed
     ELSE IF ~StatusIsPending(store[diagnosis_id])
       THEN /\ calls' = [calls EXCEPT ![c] =
                 Rejected("update", diagnosis_id, user_id,
                          "Cannot update a completed or cancelled diagnosis")]
            /\ UNCHANGED lastFailed
     ELSE LET loaded == store[diagnosis_id]
              session == [loaded EXCEPT !.diagnosis_context =
                            PushUserMessage(@, message)]
          IN  /\ Len(loaded.diagnosis_context.conversation_history) < MaxHist
              /\ calls' = [calls EXCEPT ![c] =
                             Entered("update", user_id, message, session,
                                     loaded, lastFailed[diagnosis_id])]
              /\ lastFailed' = [lastFailed EXCEPT ![diagnosis_id] = NoFailure]
  /\ UNCHANGED <<plants, store, now, fed>>

\* An update call made by a caller that serialises the calls on one
\* session: no other call on the session is in progress.
UpdateDiagnosis(c, diagnosis_id, message, user_id) ==
  /\ \A d \in DOMAIN calls : InFlight(d) => SessionOf(d) # diagnosis_id
  /\ update_diagnosis(c, diagnosis_id, message, user_id)

\* Faulty failure: the rejected reply is noted in the session in memory.
FailCall_NotesReply(c, call, msg) ==
  /\ calls' = [calls EXCEPT ![c] =
                 [call EXCEPT !.pc = "done", !.response = ErrResponse(msg),
                              !.session.diagnosis_context.state =
                                 MergeState(@, [rejected |-> JStr(msg)])]]
  /\ lastFailed' =
       IF call.kind = "update"
         THEN [lastFailed EXCEPT ![call.session.id] =
                 [failed |-> TRUE, answer |-> call.message, sent |-> call.firstSent]]
         ELSE lastFailed
  /\ UNCHANGED store

\* Faulty failure: the session in memory is persisted before the error is
\* returned.
FailCall_Persists(c, call, msg) ==
  /\ calls' = [calls EXCEPT ![c] =
                 [call EXCEPT !.pc = "done", !.nPersist = @ + 1,
                              !.response = ErrResponse(msg)]]
  /\ lastFailed' =
       IF call.kind = "update"
         THEN [lastFailed EXCEPT ![call.session.id] =
                 [failed |-> TRUE, answer |-> call.message, sent |-> call.firstSent]]
         ELSE lastFailed
  /\ store' = repo_update(store, call.session)

\* A cycle that ends the call with an error: nothing is persisted.
FailCall(c, call, msg) ==
  /\ calls' = [calls EXCEPT ![c] =
                 [call EXCEPT !.pc = "done", !.response = ErrResponse(msg)]]
  /\ lastFailed' =
       IF call.kind = "update"
         THEN [lastFailed EXCEPT ![call.session.id] =
                 [failed |-> TRUE, answer |-> call.message, sent |-> call.firstSent]]
         ELSE lastFailed
  /\ UNCHANGED store

\* Faulty Continue: the next cycle is run without a persist.
ContinueCall_SkipsPersist(c, call, session) ==
  /\ call.nAi <= MaxCycles
  /\ calls' = [calls EXCEPT ![c] = [call EXCEPT !.session = session]]
  /\ UNCHANGED <<store, lastFailed>>

\* Faulty Continue: the call returns after the persist.
ContinueCall_Returns(c, call, session) ==
  /\ call.nAi <= MaxCycles
  /\ store' = repo_update(store, session)
  /\ calls' = [calls EXCEPT ![c] =
                 [call EXCEPT !.session = session, !.nPersist = @ + 1,
                              !.pc = "done",
                              !.response = AskResponse(session.id, "")]]
  /\ UNCHANGED lastFailed

\* A cycle that persists and runs another cycle.
ContinueCall(c, call, session) ==
  /\ call.nAi <= MaxCycles
  /\ store' = repo_update(store, session)
  /\ calls' = [calls EXCEPT ![c] =
                 [call EXCEPT !.session = session, !.nPersist = @ + 1]]
  /\ UNCHANGED lastFailed

\* A cycle that persists and returns a response.
ReturnCall(c, call, session, response) ==
  /\ store' = repo_update(store, session)
  /\ calls' = [calls EXCEPT ![c] =
                 [call EXCEPT !.session = session, !.nPersist = @ + 1,
                              !.pc = "done", !.response = response]]
  /\ UNCHANGED lastFailed

\* One cycle of run_diagnosis_cycle on the reply of the AI client:
\* execute_code, execute_action and the arm of the effect.  The values of
\* a cycle are bound once, in the order the code computes them.
Cycle(c, reply) ==
  /\ InFlight(c)
  /\ \E call \in { [calls[c] EXCEPT
                      !.nAi = @ + 1,
                      !.firstSent =
                         IF calls[c].nAi = 0
                           THEN [sent |-> TRUE,
                                 context |-> calls[c].session.diagnosis_context]
                           ELSE @,
                      !.last = NoInstruction] } :
       IF ~reply.ok THEN FailCall(c, call, "AI API error")
       ELSE
         \E result \in { execute_code(reply.text) } :
           IF ~result.ok THEN FailCall(c, call, result.err)
           ELSE
             \E done \in { execute_action(result, call.session.diagnosis_context) } :
             \E session \in { [call.session EXCEPT !.diagnosis_context = done.context] } :
             \E seen \in { [call EXCEPT !.last = result] } :
               LET effect == done.effect
               IN  CASE effect.kind = "Continue" ->
                          ContinueCall(c, seen, ApplyContinue(session, now))
                     [] effect.kind = "FetchPlantVitals" ->
                          IF ~plant_found(plants, session.plant_id, call.user_id)
                            THEN FailCall(c, seen, "Plant not found")
                            ELSE ContinueCall(c, seen,
                                   ApplyFetchPlantVitals(session,
                                     plants[session.plant_id], now))
                     [] effect.kind = "AskUser" ->
                          ReturnCall(c, seen,
                            ApplyAskUser(session, effect.question, now),
                            AskResponse(session.id, effect.question))
                     [] effect.kind = "Conclude" ->
                          ReturnCall(c, seen,
                            ApplyConclude(session, effect.finding,
                                          effect.recommendation, now),
                            ConcludeResponse(session.id, effect.finding,
                                             effect.recommendation))
  /\ UNCHANGED <<plants, now>>

\* DiagnosisService::run_diagnosis_cycle, one cycle: the AI call, its
\* reply and what the cycle does with it.
RunDiagnosisCycle(c, reply) ==
  /\ Cycle(c, reply)
  /\ fed' = [fed EXCEPT ![c] = Fed(reply)]

\* The caller receives the response of a finished call.
Collect(c) ==
  /\ calls[c].pc \in {"done", "rejected", "listed"}
  /\ calls' = [calls EXCEPT ![c] = Idle]
  /\ fed' = [fed EXCEPT ![c] = NoReply]
  /\ UNCHANGED <<plants, store, now, lastFailed>>

\* Time passes.
Tick ==
  /\ now < MaxClock
  /\ now' = now + 1
  /\ UNCHANGED <<plants, store, calls, lastFailed, fed>>

Next ==
  \/ \E c \in CallSlots, p \in PlantIds, m \in Prompts, u \in Users :
       StartDiagnosis(c, p, m, u)
  \/ \E c \in CallSlots, i \in SessionIds, m \in Answers, u \in Users :
       UpdateDiagnosis(c, i, m, u)
  \/ \E c \in CallSlots, r \in AiReplies : RunDiagnosisCycle(c, r)
  \/ \E c \in CallSlots : Collect(c)
  \/ Tick

Spec == Init /\ [][Next]_vars

-----------------------------------------------------------------------------
(* The extractor and the validator under every kind of AI text: a start    *)
(* call whose cycles are fed the texts of ExecTexts.                       *)

\* The objects the system prompt asks for, one per action kind.
WellFormed == {"ask_q1", "conclude_f1", "log_h1", "vitals"}

\* Texts that hold two objects, or an object and fences around something
\* else.
MixedTexts ==
  { <<Fence, Ws>> \o Bare("ask_q1") \o <<Ws, Fence, "prose", FenceJson, Ws>>
      \o Bare("conclude_f1") \o <<Ws, Fence>>,
    Bare("ask_q1") \o <<"prose", FenceJson, Ws>> \o Bare("conclude_f1") \o <<Ws, Fence>>,
    Bare("ask_q1") \o <<"prose", Fence, Ws>> \o Bare("log_h1") \o <<Ws, Fence>>,
    Bare("ask_q1") \o <<"prose", Fence, "prose", Fence>>,
    <<FenceJson, "prose", Fence, Ws>> \o Bare("ask_q1"),
    <<FenceJson, Ws>> \o Bare("ask_q2") \o <<Ws, FenceJson, Ws>>
      \o Bare("conclude_f1") \o <<Ws, Fence>>,
    <<Fence, Ws>> \o Bare("log_h1"),
    Bare("ask_q1") \o <<"prose">> \o Bare("ask_q2"),
    <<"}", "prose", "{">>,
    <<"prose", "}", "{", "prose">>,
    <<"{", "prose", "}">>,
    <<"prose">>,
    <<"prose", Ws, "prose">>,
    <<>>,
    <<"num42">>,
    <<"prose", Ws, Fence, Ws, "num42", Ws, Fence>> }

ExecTexts ==
  { Bare(b) : b \in DOMAIN Bodies }
    \cup { Tagged(b) : b \in WellFormed \cup {"ask_qf", "ask_empty"} }
    \cup { Untagged(b) : b \in WellFormed \cup {"ask_qf"} }
    \cup { InProse(b) : b \in WellFormed \cup {"ask_qf"} }
    \cup MixedTexts

ExecReplies == { [ok |-> FALSE] } \cup { [ok |-> TRUE, text |-> t] : t \in ExecTexts }

NextExec ==
  \/ \E c \in CallSlots, p \in PlantIds, m \in Prompts, u \in Users :
       StartDiagnosis(c, p, m, u)
  \/ \E c \in CallSlots, r \in ExecReplies : RunDiagnosisCycle(c, r)
  \/ \E c \in CallSlots : Collect(c)

ExecSpec == Init /\ [][NextExec]_vars

\* The same, with a cycle taking place whenever a call waits for one: the
\* AI client answers, and answers LOG_STATE or GET_PLANT_VITALS no more
\* than MaxCycles times in a call.
FairExecSpec ==
  ExecSpec /\ WF_vars(\E c \in CallSlots, r \in ExecReplies : RunDiagnosisCycle(c, r))

-----------------------------------------------------------------------------
(* Diagnosis calls while the plants table changes.                         *)

PlantNames == {"n1", "n2"}

CareSchedules == {"cs1", "cs2"}

\* A plant row is rewritten through PlantRepository::update.
UpdatePlant(plant_id, name, care_schedule) ==
  /\ plant_id \in DOMAIN plants
  /\ plants' = plant_repo_update(plants, plant_id, name, care_schedule)
  /\ plants' # plants
  /\ UNCHANGED <<store, calls, now, lastFailed, fed>>

\* commands::delete_plant: the plant row of the local user goes, and with
\* it the sessions that refer to it.
DeletePlant(plant_id) ==
  /\ plants' = plant_repo_delete(plants, plant_id, "local-user")
  /\ plants' # plants
  /\ store' = cascade(store, plants')
  /\ UNCHANGED <<calls, now, lastFailed, fed>>

PlantTexts ==
  { Bare("vitals"), Bare("log_h1"), Bare("log_ip"), Bare("ask_q1"),
    Bare("conclude_f1") }

PlantReplies == { [ok |-> FALSE] } \cup { [ok |-> TRUE, text |-> t] : t \in PlantTexts }

NextPlant ==
  \/ \E c \in CallSlots, p \in PlantIds, m \in Prompts, u \in Users :
       StartDiagnosis(c, p, m, u)
  \/ \E c \in CallSlots, i \in SessionIds, u \in Users :
       UpdateDiagnosis(c, i, "a1", u)
  \/ \E c \in CallSlots, r \in PlantReplies : RunDiagnosisCycle(c, r)
  \/ \E c \in CallSlots : Collect(c)
  \/ \E p \in PlantIds, n \in PlantNames, s \in CareSchedules : UpdatePlant(p, n, s)
  \/ \E p \in PlantIds : DeletePlant(p)

PlantSpec == Init /\ [][NextPlant]_vars

-----------------------------------------------------------------------------
(* Diagnosis calls while sessions are deleted.                             *)

\* DiagnosisService::delete_diagnosis: the result and the table it leaves.
delete_diagnosis(st, ps, diagnosis_id, user_id) ==
  IF diagnosis_id \notin DOMAIN st
    THEN [ok |-> FALSE, err |-> "Diagnosis session not found", store |-> st]
  ELSE IF ~plant_found(ps, st[diagnosis_id].plant_id, user_id)
    THEN [ok |-> FALSE, err |-> "Unauthorized access to diagnosis", store |-> st]
  ELSE [ok |-> TRUE, store |-> repo_delete(st, diagnosis_id)]

\* A delete_diagnosis call that goes through; one that is turned away
\* changes nothing.
DeleteDiagnosis(diagnosis_id, user_id) ==
  /\ delete_diagnosis(store, plants, diagnosis_id, user_id).ok
  /\ store' = delete_diagnosis(store, plants, diagnosis_id, user_id).store
  /\ UNCHANGED <<plants, calls, now, lastFailed, fed>>

NextDelete ==
  \/ \E c \in CallSlots, p \in PlantIds, m \in Prompts, u \in Users :
       StartDiagnosis(c, p, m, u)
  \/ \E c \in CallSlots, i \in SessionIds, u \in Users :
       UpdateDiagnosis(c, i, "a1", u)
  \/ \E c \in CallSlots, r \in PlantReplies : RunDiagnosisCycle(c, r)
  \/ \E c \in CallSlots : Collect(c)
  \/ \E i \in SessionIds, u \in Users : DeleteDiagnosis(i, u)

DeleteSpec == Init /\ [][NextDelete]_vars

-----------------------------------------------------------------------------
(* Two callers at once, on the same session or on different ones, with a   *)
(* second and a third session stored beforehand.                           *)

PairSlots == {"c1", "c2"}

\* A session as start_diagnosis leaves it when its first cycle asks q1.
Asked1(id, plant, plant_id) ==
  ApplyAskUser(
    [DiagnosisSession_new(id, plant_id, "leaves yellowing", 0) EXCEPT
       !.diagnosis_context = Insert(@, "plant_vitals", Vitals(plant))],
    "q1", 0)

\* DiagnosisService::get_all_by_plant_id
ListByPlant(c, plant_id, user_id) ==
  /\ calls[c] = Idle
  /\ IF ~plant_found(plants, plant_id, user_id)
       THEN calls' = [calls EXCEPT ![c] =
                        Rejected("list", plant_id, user_id, "Plant not found")]
       ELSE \E q \in get_all_by_plant_id(store, plant_id) :
              calls' = [calls EXCEPT ![c] =
                          [pc |-> "listed", kind |-> "list", target |-> plant_id,
                           user_id |-> user_id, nAi |-> 0, nPersist |-> 0,
                           response |-> [type |-> "list", sessions |-> q]]]
  /\ UNCHANGED <<plants, store, now, lastFailed, fed>>

\* Two plants of two owners, a session of the first plant and one of the
\* second, both asked their first question at time 0.
StoredBefore ==
  /\ plants = [p \in PlantIds |->
                 IF p = "p1"
                   THEN [user_id |-> "local-user", name |-> "n1", care_schedule |-> "cs1"]
                   ELSE [user_id |-> "other", name |-> "n2", care_schedule |-> "cs2"]]
  /\ store = [i \in {"s2", "s3"} |->
                IF i = "s2" THEN Asked1("s2", plants["p1"], "p1")
                            ELSE Asked1("s3", plants["p2"], "p2")]
  /\ now = 0
  /\ lastFailed = [i \in {"s1", "s2", "s3"} |-> NoFailure]

InitPair ==
  /\ StoredBefore
  /\ calls = [c \in PairSlots |-> Idle]
  /\ fed = [c \in PairSlots |-> NoReply]

PairTexts == { Bare("ask_q1"), Bare("conclude_f1") }

PairReplies == { [ok |-> TRUE, text |-> t] : t \in PairTexts }

\* The answer each caller gives.
AnswerOf(c) == IF c = "c1" THEN "a1" ELSE "a2"

NextPair ==
  \/ \E c \in PairSlots, m \in Prompts : StartDiagnosis(c, "p1", m, "local-user")
  \/ \E c \in PairSlots, i \in {"s1", "s2"} :
       update_diagnosis(c, i, AnswerOf(c), "local-user")
  \/ \E c \in PairSlots, r \in PairReplies : RunDiagnosisCycle(c, r)
  \/ \E c \in PairSlots : Collect(c)
  \/ Tick

PairSpec == InitPair /\ [][NextPair]_vars

\* One caller that starts sessions and lists the sessions of a plant.
InitList ==
  /\ StoredBefore
  /\ calls = [c \in CallSlots |-> Idle]
  /\ fed = [c \in CallSlots |-> NoReply]

NextList ==
  \/ \E c \in CallSlots, p \in PlantIds, m \in Prompts, u \in Users :
       StartDiagnosis(c, p, m, u)
  \/ \E c \in CallSlots, r \in PairReplies : RunDiagnosisCycle(c, r)
  \/ \E c \in CallSlots : Collect(c)
  \/ \E c \in CallSlots, p \in PlantIds, u \in Users : ListByPlant(c, p, u)
  \/ Tick

ListSpec == InitList /\ [][NextList]_vars

-----------------------------------------------------------------------------
(* Properties                                                              *)

History(session) == session.diagnosis_context.conversation_history

IsPrefix(s, t) == Len(s) <= Len(t) /\ SubSeq(t, 1, Len(s)) = s

HasResult(session) == "result" \in DOMAIN session.diagnosis_context

\* The calls that have entered run_diagnosis_cycle.
Cycling == { c \in CallSlots : calls[c].pc \in {"running", "done"} }

Failed(c) == calls[c].pc = "done" /\ calls[c].response.type = "error"

\* The session id a call was made for.
TargetOf(call) == IF call.pc = "rejected" THEN call.target ELSE call.session.id

\* C1: when a cycle of a start/update call fails, the stored session is
\* exactly the one that was stored when the call began its cycles, also
\* when earlier cycles of the same call were LOG_STATE or GET_PLANT_VITALS.
C1_FailedCallCommitsNothing ==
  \A c \in CallSlots :
    Failed(c) /\ calls[c].session.id \in DOMAIN store
      => store[calls[c].session.id] = calls[c].pre

\* C2: the stored status of a session only moves from PendingUserInput to
\* PendingUserInput, Completed or Cancelled and never leaves Completed or
\* Cancelled.
C2_StatusTransitions ==
  [][\A i \in DOMAIN store \cap DOMAIN store' :
       \/ store[i].status = PendingUserInput /\ store'[i].status \in DiagnosisStatus
       \/ store[i].status \in {Completed, Cancelled}
            /\ store'[i].status = store[i].status]_vars

\* A completed session that was asked a question before, and an update
\* call on it that the engine has just turned down.
C2_Witness ==
  \E c \in CallSlots :
    /\ calls[c].pc = "rejected" /\ calls[c].kind = "update"
    /\ calls[c].target \in DOMAIN store
    /\ store[calls[c].target].status = Completed
    /\ \E n \in DOMAIN History(store[calls[c].target]) :
         History(store[calls[c].target])[n].role = "assistant"

\* C3: a stored session has a result exactly when its status is Completed.
C3_ResultIffCompleted ==
  \A i \in DOMAIN store : HasResult(store[i]) <=> store[i].status = Completed

C3_Witness ==
  \E i \in DOMAIN store :
    /\ store[i].status = Completed
    /\ store[i].diagnosis_context.result = [finding |-> "f1", recommendation |-> "r1"]
    /\ DOMAIN store[i].diagnosis_context.state # {}

\* C4: every stored conversation_history extends the one stored before:
\* earlier turns stay, in order, with their role and message.
C4_HistoryExtends ==
  [][\A i \in DOMAIN store \cap DOMAIN store' :
       IsPrefix(History(store[i]), History(store'[i]))]_vars

C4_Witness ==
  \E i \in DOMAIN store :
    /\ Len(History(store[i])) >= 4
    /\ History(store[i])[2].role = "assistant"
    /\ History(store[i])[3].role = "user"

\* The number of entries a call has added to the stored history.
Added(c) ==
  Len(History(store[calls[c].session.id])) - Len(History(calls[c].pre))

AskedNow(c) == IF calls[c].response.type = "ask" THEN 1 ELSE 0

\* C5 as stated: a call adds one entry if it is an update call, one more
\* if it ends with a question, and nothing else.
C5_OnePerUpdateCall ==
  \A c \in CallSlots :
    calls[c].pc = "done" /\ calls[c].session.id \in DOMAIN store
      => Added(c) = (IF calls[c].kind = "update" THEN 1 ELSE 0) + AskedNow(c)

\* C5 amended: the stored history grows by one entry for each ASK_USER
\* outcome and by one entry for each update call that has persisted at
\* least one cycle (its first persist commits the answer), and by nothing
\* else: LOG_STATE, GET_PLANT_VITALS and CONCLUDE cycles add no entry of
\* their own and a call that fails before its first persist adds none.
C5_OnePerCommittedUpdate ==
  \A c \in Cycling :
    calls[c].session.id \in DOMAIN store
      => Added(c) = (IF calls[c].kind = "update" /\ calls[c].nPersist > 0
                       THEN 1 ELSE 0) + AskedNow(c)

\* An update call that logged state, fetched nothing, and then asked.
C5_Witness ==
  \E c \in CallSlots :
    /\ calls[c].pc = "done" /\ calls[c].kind = "update"
    /\ calls[c].nPersist >= 2 /\ calls[c].response.type = "ask"

\* C6: an update call by the plant's owner on a session whose stored
\* status is not PendingUserInput is turned down with the invalid-state
\* error, makes no AI call and leaves the store as it was.
C6_UpdateOnFinishedRejected ==
  [][\A c \in CallSlots :
       /\ \A i \in DOMAIN store :
            ( /\ calls[c] = Idle /\ calls'[c] # Idle
              /\ calls'[c].kind = "update" /\ TargetOf(calls'[c]) = i
              /\ store[i].status # PendingUserInput
              /\ plant_found(plants, store[i].plant_id, calls'[c].user_id) )
            => /\ calls'[c].pc = "rejected"
               /\ calls'[c].response =
                    ErrResponse("Cannot update a completed or cancelled diagnosis")
               /\ calls'[c].nAi = 0
               /\ store' = store
       /\ calls[c].pc = "rejected"
            => calls'[c] \in {calls[c], Idle} /\ store' = store]_vars

C6_Witness ==
  \E c \in CallSlots :
    /\ calls[c].pc = "rejected"
    /\ calls[c].response = ErrResponse("Cannot update a completed or cancelled diagnosis")
    /\ store[calls[c].target].status = Completed
    /\ store[calls[c].target].updated_at < now

\* C7: an update call that retries the answer of the update call that
\* failed before it sends the AI client the context that call sent first.
C7_RetrySendsSameContext ==
  \A c \in Cycling :
    ( /\ calls[c].kind = "update"
      /\ calls[c].retryOf.failed
      /\ calls[c].retryOf.answer = calls[c].message
      /\ calls[c].firstSent.sent )
    => calls[c].firstSent.context = calls[c].retryOf.sent.context

\* A step of slot c that is a cycle whose validated action is a.
CycleOf(c, a) ==
  /\ calls[c].pc = "running"
  /\ calls'[c] # calls[c]
  /\ calls'[c].last.ok
  /\ calls'[c].last.action = a

\* A finished call makes no further AI call and persists nothing more.
Ended(c) ==
  calls[c].pc = "done" => calls'[c] \in {calls[c], Idle} /\ store' = store

\* C8: a cycle whose validated action is ASK_USER appends one assistant
\* turn holding the question to the history, sets the status to
\* PendingUserInput, persists the session and ends the call with the Ask
\* response carrying the session id and the question, after one AI call.
C8_AskUserCycle ==
  [][\A c \in CallSlots :
       /\ CycleOf(c, "ASK_USER") =>
            LET before == calls[c].session
                after == calls'[c].session
                question == Index(calls'[c].last.payload, "question").s
            IN  /\ History(after) = Append(History(before), AssistantTurn(question))
                /\ after.status = PendingUserInput
                /\ before.id \in DOMAIN store =>
                     /\ store'[before.id].diagnosis_context = after.diagnosis_context
                     /\ store'[before.id].status = PendingUserInput
                     /\ store'[before.id].updated_at = now
                /\ calls'[c].pc = "done"
                /\ calls'[c].response = AskResponse(before.id, question)
                /\ calls'[c].nAi = calls[c].nAi + 1
       /\ Ended(c)]_vars

C8_Witness ==
  \E c \in CallSlots :
    /\ calls[c].pc = "done" /\ calls[c].kind = "update"
    /\ calls[c].response = AskResponse("s1", "q1")
    /\ calls[c].nAi = 1
    /\ History(store["s1"])[Len(History(store["s1"]))] = AssistantTurn("q1")

\* C9: a cycle whose validated action is CONCLUDE stores the finding and
\* the recommendation of the payload as the result, sets the status to
\* Completed, persists the session and ends the call with the Conclude
\* response carrying the session id and the stored finding and
\* recommendation, after one AI call.
C9_ConcludeCycle ==
  [][\A c \in CallSlots :
       CycleOf(c, "CONCLUDE") =>
         LET before == calls[c].session
             after == calls'[c].session
             finding == Index(calls'[c].last.payload, "finding").s
             recommendation == Index(calls'[c].last.payload, "recommendation").s
         IN  /\ after.diagnosis_context.result =
                  [finding |-> finding, recommendation |-> recommendation]
             /\ after.status = Completed
             /\ History(after) = History(before)
             /\ before.id \in DOMAIN store =>
                  /\ store'[before.id].diagnosis_context = after.diagnosis_context
                  /\ store'[before.id].status = Completed
                  /\ store'[before.id].updated_at = now
             /\ calls'[c].pc = "done"
             /\ calls'[c].response =
                  ConcludeResponse(before.id,
                                   store'[before.id].diagnosis_context.result.finding,
                                   store'[before.id].diagnosis_context.result.recommendation)
             /\ calls'[c].response.finding = finding
             /\ calls'[c].response.recommendation = recommendation
             /\ calls'[c].nAi = calls[c].nAi + 1
             /\ calls'[c] # Idle /\ calls'[c].pc # "running"]_vars

C9_Witness ==
  \E c \in CallSlots :
    /\ calls[c].pc = "done" /\ calls[c].kind = "update"
    /\ calls[c].response = ConcludeResponse("s1", "f1", "r1")
    /\ store["s1"].status = Completed
    /\ calls[c].pre.status = PendingUserInput

\* C10: a cycle whose validated action is LOG_STATE writes every key of
\* the payload into the state (a new key is added, the value of a present
\* key is overwritten, the other keys keep their values), persists the
\* session and lets the call go on to another AI call; no step removes a
\* key from a stored state.
C10_LogStateCycle ==
  [][/\ \A c \in CallSlots :
          /\ CycleOf(c, "LOG_STATE") =>
               LET before == calls[c].session.diagnosis_context.state
                   after == calls'[c].session.diagnosis_context.state
                   payload == calls'[c].last.payload.o
                   id == calls[c].session.id
               IN  /\ DOMAIN after = DOMAIN before \cup DOMAIN payload
                   /\ \A k \in DOMAIN payload : after[k] = payload[k]
                   /\ \A k \in DOMAIN before \ DOMAIN payload : after[k] = before[k]
                   /\ id \in DOMAIN store =>
                        store'[id].diagnosis_context = calls'[c].session.diagnosis_context
                   /\ calls'[c].pc = "running"
          /\ calls[c].pc = "running" /\ calls'[c] # calls[c]
               => calls'[c].nAi = calls[c].nAi + 1
     /\ \A i \in DOMAIN store \cap DOMAIN store' :
          DOMAIN store[i].diagnosis_context.state
            \subseteq DOMAIN store'[i].diagnosis_context.state]_vars

\* A stored state whose key was overwritten and that gained a key, in a
\* call that is about to make its next AI call.
C10_Witness ==
  \E c \in CallSlots :
    /\ calls[c].pc = "running" /\ calls[c].nPersist >= 1
    /\ calls[c].last.ok /\ calls[c].last.action = "LOG_STATE"
    /\ store[calls[c].session.id].diagnosis_context.state =
         [hypothesis |-> JStr("h1"), confidence |-> JNum(7)]

-----------------------------------------------------------------------------
(* Properties of the extractor and the validator                           *)

\* The latest cycle of the call of slot c was given a text and the
\* extractor pulled a value out of it.
Extracted(c) == fed[c].given /\ fed[c].ok /\ fed[c].parsed.ok

\* The value extracted in the latest cycle names action a.
Instruction(c, a) ==
  Extracted(c) /\ Index(fed[c].parsed.value, "action") = JStr(a)

PayloadOf(c) == Index(fed[c].parsed.value, "payload")

NonEmptyStr(v) == is_str(v) /\ v.s # ""

\* The stored history holds an assistant turn.
Asked(i) ==
  \E n \in DOMAIN History(store[i]) : History(store[i])[n].role = "assistant"

\* C11: an ASK_USER instruction whose payload has no question, or a
\* question that is not a string, or the empty string as question, is
\* rejected: the call fails, returns no Ask response and no assistant turn
\* is stored.
C11_AskUserNeedsNonEmptyQuestion ==
  \A c \in Cycling :
    Instruction(c, "ASK_USER") /\ ~NonEmptyStr(Index(PayloadOf(c), "question"))
      => /\ Failed(c)
         /\ calls[c].session.id \in DOMAIN store => ~Asked(calls[c].session.id)

\* C12: a CONCLUDE instruction whose payload lacks finding or
\* recommendation, or holds one of them as a value that is not a string or
\* as the empty string, is rejected: the call fails and the session is not
\* marked Completed.
C12_ConcludeNeedsNonEmptyStrings ==
  \A c \in Cycling :
    ( /\ Instruction(c, "CONCLUDE")
      /\ \/ ~NonEmptyStr(Index(PayloadOf(c), "finding"))
         \/ ~NonEmptyStr(Index(PayloadOf(c), "recommendation")) )
      => /\ Failed(c)
         /\ calls[c].session.id \in DOMAIN store
              => store[calls[c].session.id].status # Completed

\* The payload fields an action cannot do without.
Required(a) ==
  CASE a = "ASK_USER" -> {"question"}
    [] a = "CONCLUDE" -> {"finding", "recommendation"}
    [] OTHER -> {}

\* The payload shapes the system prompt describes for each action.
CorrectShape(a, p) ==
  /\ is_object(p)
  /\ a = "LOG_STATE" => DOMAIN p.o # {}
  /\ \A k \in Required(a) : NonEmptyStr(Index(p, k))

InvalidPayloadMessages ==
  { "LOG_STATE payload must be a non-empty object",
    "ASK_USER payload must contain a question string",
    "CONCLUDE payload must contain a finding string",
    "CONCLUDE payload must contain a recommendation string" }

\* C13: for each of the four action kinds an instruction with that action
\* name and a payload of the correct shape passes validation and is the
\* instruction the cycle acts on; an ASK_USER payload without question, a
\* CONCLUDE payload without finding or without recommendation and a
\* LOG_STATE payload without any key fail validation and fail the call.
C13_ShapeDecidesValidation ==
  \A c \in Cycling : \A a \in DiagnosisAction :
    Instruction(c, a) =>
      /\ CorrectShape(a, PayloadOf(c)) =>
            /\ calls[c].last.ok
            /\ calls[c].last.action = a
            /\ calls[c].last.payload = PayloadOf(c)
            /\ Failed(c) => calls[c].response.error \notin InvalidPayloadMessages
      /\ ( /\ is_object(PayloadOf(c))
           /\ \/ Required(a) \ DOMAIN PayloadOf(c).o # {}
              \/ a = "LOG_STATE" /\ DOMAIN PayloadOf(c).o = {} ) =>
            /\ Failed(c)
            /\ calls[c].response.error \in InvalidPayloadMessages
            /\ ~calls[c].last.ok

\* A call that failed on a CONCLUDE object with a finding and no
\* recommendation.
C13_Witness ==
  \E c \in CallSlots :
    /\ Failed(c) /\ Instruction(c, "CONCLUDE")
    /\ DOMAIN PayloadOf(c).o = {"finding"}
    /\ calls[c].response.error = "CONCLUDE payload must contain a recommendation string"

\* The error kinds of the design, by the message the code fails with.
ErrorKind(msg) ==
  CASE msg \in {"Missing action field in AI response", "Invalid action"} ->
         "InvalidAction"
    [] msg = "Missing payload field in AI response" -> "MissingPayload"
    [] msg \in InvalidPayloadMessages -> "InvalidPayload"
    [] msg \in {"Failed to parse JSON from markdown block",
                "Failed to parse JSON from code block",
                "Could not parse AI response as valid JSON"} -> "ParseFailure"
    [] msg = "AI API error" -> "UpstreamError"
    [] msg \in {"Plant not found", "Diagnosis session not found"} -> "NotFound"
    [] msg = "Unauthorized access to diagnosis" -> "Unauthorized"
    [] msg = "Cannot update a completed or cancelled diagnosis" -> "InvalidState"
    [] OTHER -> "Panic"

RecognizedNames == {"GET_PLANT_VITALS", "LOG_STATE", "ASK_USER", "CONCLUDE"}

\* C14: an extracted value whose action is missing, is not a string or is
\* not one of the four names fails the call with InvalidAction; a value
\* with one of the four names whose payload is missing or null fails the
\* call with MissingPayload, GET_PLANT_VITALS included.
C14_ActionThenPayload ==
  \A c \in Cycling :
    Extracted(c) =>
      LET action == Index(fed[c].parsed.value, "action")
      IN  /\ ~is_str(action) \/ action.s \notin RecognizedNames =>
                /\ Failed(c)
                /\ ErrorKind(calls[c].response.error) = "InvalidAction"
                /\ ~calls[c].last.ok
          /\ ( /\ is_str(action) /\ action.s \in RecognizedNames
               /\ PayloadOf(c) = JNull ) =>
                /\ Failed(c)
                /\ ErrorKind(calls[c].response.error) = "MissingPayload"
                /\ ~calls[c].last.ok

\* A call that failed on a GET_PLANT_VITALS object whose payload is null.
C14_Witness ==
  \E c \in CallSlots :
    /\ Failed(c) /\ Instruction(c, "GET_PLANT_VITALS")
    /\ "payload" \in DOMAIN fed[c].parsed.value.o
    /\ calls[c].response.error = "Missing payload field in AI response"

\* A step of slot c that is one cycle of its call.
CycleStep(c) == calls[c].pc = "running" /\ calls'[c] # calls[c]

\* C15: a cycle given a LOG_STATE instruction whose payload is an object
\* without keys, an array, a string, a number or a boolean fails the call
\* with InvalidPayload; the state of the session, in memory and stored, is
\* what it was before the cycle.
C15_LogStateNeedsKeys ==
  [][\A c \in CallSlots :
       ( /\ CycleStep(c)
         /\ fed'[c].given /\ fed'[c].ok /\ fed'[c].parsed.ok
         /\ Index(fed'[c].parsed.value, "action") = JStr("LOG_STATE")
         /\ LET p == Index(fed'[c].parsed.value, "payload")
            IN  \/ p.t \in {"arr", "str", "num", "bool"}
                \/ p.t = "obj" /\ DOMAIN p.o = {} )
       => /\ calls'[c].pc = "done"
          /\ calls'[c].response.type = "error"
          /\ ErrorKind(calls'[c].response.error) = "InvalidPayload"
          /\ calls'[c].session.diagnosis_context.state
               = calls[c].session.diagnosis_context.state
          /\ store' = store]_vars

\* A call that logged a hypothesis and then failed on a LOG_STATE object
\* whose payload is an array: the stored state still is the hypothesis.
C15_Witness ==
  \E c \in CallSlots :
    /\ Failed(c) /\ Instruction(c, "LOG_STATE")
    /\ PayloadOf(c).t = "arr"
    /\ calls[c].response.error = "LOG_STATE payload must be a non-empty object"
    /\ store[calls[c].session.id].diagnosis_context.state = [hypothesis |-> JStr("h1")]

\* The three written forms of object b, each also with prose around it.
FormsOf(b) == {Bare(b), InProse(b), Tagged(b), Untagged(b)}

Positions(t, T) == { i \in 1..Len(t) : t[i] \in T }

\* What stands between position i of t and the next fence after it, or
\* the end of t.
Between(t, i) ==
  LET next == { j \in Positions(t, {Fence, FenceJson}) : j > i }
  IN  SubSeq(t, i + 1, IF next = {} THEN Len(t) ELSE Min(next) - 1)

\* The extractor gave what parsing piece gives: the same value, or a
\* failure when piece does not parse.
ParsedAs(got, piece) ==
  /\ got.ok = from_str(piece).ok
  /\ got.ok => got.value = from_str(piece).value

\* C17: the extractor gives the parse of the whole text when that parse
\* succeeds; otherwise, when the text holds a fence tagged json, the parse
\* of the trimmed text between the first tagged fence and the next fence,
\* whatever stands before it; otherwise, when the text holds a fence, the
\* parse of the trimmed text between the first fence and the next fence;
\* and the text from the first opening brace to the last closing brace is
\* parsed only when the text holds no fence.
C17_StrategyPrecedence ==
  \A c \in Cycling :
    fed[c].given /\ fed[c].ok =>
      LET t == fed[c].text
          got == fed[c].parsed
          tagged == Positions(t, {FenceJson})
          fences == Positions(t, {Fence, FenceJson})
          opening == Positions(t, {"{"})
          closing == Positions(t, {"}"})
      IN  IF from_str(t).ok THEN got = from_str(t)
          ELSE IF tagged # {} THEN ParsedAs(got, Trim(Between(t, Min(tagged))))
          ELSE IF fences # {} THEN ParsedAs(got, Trim(Between(t, Min(fences))))
          ELSE got.ok =>
                 /\ opening # {} /\ closing # {}
                 /\ ParsedAs(got, SubSeq(t, Min(opening), Max(closing)))

\* A call given an object in an untagged fence, prose, and then another
\* object in a tagged fence: it acted on the second.
C17_Witness ==
  \E c \in CallSlots :
    /\ fed[c].given /\ fed[c].ok
    /\ Positions(fed[c].text, {Fence}) # {}
    /\ Positions(fed[c].text, {FenceJson}) # {}
    /\ Min(Positions(fed[c].text, {Fence})) < Min(Positions(fed[c].text, {FenceJson}))
    /\ SubSeq(fed[c].text, 3, 5) = Bare("ask_q1")
    /\ calls[c].pc = "done"
    /\ calls[c].response = ConcludeResponse("s1", "f1", "r1")

\* The error a call returned carries text as its raw value.
CarriesRaw(response, text) == "raw" \in DOMAIN response /\ response.raw = text

\* C18: when no strategy of the extractor yields a value, the call fails
\* with a ParseFailure error that carries the text of the AI client as it
\* was received.
C18_ParseFailureCarriesText ==
  \A c \in Cycling :
    fed[c].given /\ fed[c].ok /\ ~fed[c].parsed.ok =>
      /\ Failed(c)
      /\ ErrorKind(calls[c].response.error) = "ParseFailure"
      /\ CarriesRaw(calls[c].response, fed[c].text)

-----------------------------------------------------------------------------
(* Properties of the two entry points                                      *)

\* A step in which slot c takes up a call of the given kind.
Enters(c, kind) == calls[c] = Idle /\ calls'[c] # Idle /\ calls'[c].kind = kind

\* The plant exists and belongs to the user.
Owned(plant_id, user_id) ==
  plant_id \in DOMAIN plants /\ plants[plant_id].user_id = user_id

\* C19: start_diagnosis fails with NotFound and stores nothing when the
\* plant is absent or not the caller's; otherwise, before its first cycle,
\* it has stored one new session with an id not in use, the given
\* plant_id, status PendingUserInput, the problem text as initial_prompt,
\* a history of the one user turn with the problem text, an empty state,
\* no result and the name and care schedule of the plant as plant_vitals.
C19_StartCreatesSeededSession ==
  [][\A c \in CallSlots :
       Enters(c, "start") =>
         IF calls'[c].pc = "rejected"
           THEN /\ ~Owned(calls'[c].target, calls'[c].user_id)
                /\ calls'[c].response = ErrResponse("Plant not found")
                /\ ErrorKind(calls'[c].response.error) = "NotFound"
                /\ store' = store
           ELSE LET session == calls'[c].session
                IN  /\ Owned(session.plant_id, calls'[c].user_id)
                    /\ calls'[c].pc = "running" /\ calls'[c].nAi = 0
                    /\ session.id \notin DOMAIN store
                    /\ DOMAIN store' = DOMAIN store \cup {session.id}
                    /\ \A i \in DOMAIN store : store'[i] = store[i]
                    /\ store'[session.id] = session
                    /\ session.status = PendingUserInput
                    /\ session.diagnosis_context =
                         [ initial_prompt |-> calls'[c].message,
                           conversation_history |->
                             <<[role |-> "user", message |-> calls'[c].message]>>,
                           state |-> <<>>,
                           plant_vitals |->
                             [ name |-> plants[session.plant_id].name,
                               care_schedule |->
                                 plants[session.plant_id].care_schedule ] ]]_vars

\* A start call that has stored its session and not yet called the AI
\* client.
C19_Witness ==
  \E c \in CallSlots :
    /\ calls[c].pc = "running" /\ calls[c].kind = "start" /\ calls[c].nAi = 0
    /\ "s1" \in DOMAIN store
    /\ store["s1"].plant_id = "p1"
    /\ store["s1"].diagnosis_context.plant_vitals = [name |-> "n1", care_schedule |-> "cs1"]
    /\ Len(History(store["s1"])) = 1

\* C20: update_diagnosis looks up the session, then the plant of the
\* session for the caller, then the status: an unknown id fails with
\* NotFound, a session whose plant is not the caller's fails with
\* Unauthorized whatever its status, and only then a status other than
\* PendingUserInput fails with InvalidState; a call turned down in one of
\* these ways makes no AI call and leaves the store as it was.
C20_UpdateCheckOrder ==
  [][\A c \in CallSlots :
       /\ Enters(c, "update") =>
            LET id == TargetOf(calls'[c])
                kind == ErrorKind(calls'[c].response.error)
            IN  /\ IF id \notin DOMAIN store
                     THEN calls'[c].pc = "rejected" /\ kind = "NotFound"
                   ELSE IF ~Owned(store[id].plant_id, calls'[c].user_id)
                     THEN calls'[c].pc = "rejected" /\ kind = "Unauthorized"
                   ELSE IF store[id].status # PendingUserInput
                     THEN calls'[c].pc = "rejected" /\ kind = "InvalidState"
                   ELSE calls'[c].pc = "running"
                /\ calls'[c].pc = "rejected" =>
                     calls'[c].nAi = 0 /\ store' = store
       /\ calls[c].pc = "rejected" /\ calls[c].kind = "update" =>
            calls'[c] \in {calls[c], Idle} /\ store' = store]_vars

\* An update call by a user who does not own the plant, on a completed
\* session: turned down as unauthorized.
C20_Witness ==
  \E c \in CallSlots :
    /\ calls[c].pc = "rejected" /\ calls[c].kind = "update"
    /\ calls[c].target \in DOMAIN store
    /\ store[calls[c].target].status = Completed
    /\ ~Owned(store[calls[c].target].plant_id, calls[c].user_id)
    /\ calls[c].response = ErrResponse("Unauthorized access to diagnosis")

-----------------------------------------------------------------------------
(* Properties of the cycle loop                                            *)

\* The instruction the cycle of this step validated names action a.
Validated(c, a) == calls'[c].last.ok /\ calls'[c].last.action = a

FailedReply(c) ==
  \/ ~fed'[c].ok
  \/ ~fed'[c].parsed.ok
  \/ ~calls'[c].last.ok

\* The error of such a reply.
ReplyError(c) ==
  IF ~fed'[c].ok THEN "AI API error"
  ELSE IF ~fed'[c].parsed.ok THEN fed'[c].parsed.err
  ELSE execute_code(fed'[c].text).err

\* C22: a cycle step makes one AI client call; on the first AI client
\* error, extraction failure or validation failure the call ends with
\* that error, the step persists nothing, and the ended call makes no
\* further AI call and no persist.
C22_NoRetry ==
  [][\A c \in CallSlots :
       /\ CycleStep(c) =>
            /\ calls'[c].nAi = calls[c].nAi + 1
            /\ fed'[c].given
            /\ FailedReply(c) =>
                 /\ calls'[c].pc = "done"
                 /\ calls'[c].response = ErrResponse(ReplyError(c))
                 /\ calls'[c].nPersist = calls[c].nPersist
                 /\ store' = store
       /\ (Failed(c) /\ calls'[c] # calls[c]) =>
            /\ calls'[c] = Idle
            /\ store' = store]_vars

\* An update call that failed on its first reply after the answer was
\* pushed in memory: one AI call, no persist.
C22_Witness ==
  \E c \in CallSlots :
    /\ Failed(c) /\ calls[c].kind = "update"
    /\ calls[c].nAi = 1 /\ calls[c].nPersist = 0
    /\ fed[c].given /\ fed[c].ok /\ fed[c].parsed.ok /\ ~calls[c].last.ok
    /\ store[calls[c].session.id] # calls[c].session

-----------------------------------------------------------------------------
(* Properties of the plant vitals and of the fields that are never         *)
(* rewritten                                                               *)

\* The result of a context, JNull when it has none.
ResultOf(context) == IF "result" \in DOMAIN context THEN context.result ELSE JNull

\* C23: a cycle whose validated action is GET_PLANT_VITALS sets
\* plant_vitals to the name and care schedule the plant row holds at that
\* moment, persists the session with status, history, state and result as
\* they were and leaves the call waiting for another cycle; when the plant
\* is not found for the caller the call fails with Plant not found and
\* the store is unchanged.
C23_FetchPlantVitalsCycle ==
  [][\A c \in CallSlots :
       (CycleStep(c) /\ Validated(c, "GET_PLANT_VITALS")) =>
         LET before == calls[c].session
             after  == calls'[c].session
             id     == before.id
         IN  IF before.plant_id \in DOMAIN plants
                  /\ plants[before.plant_id].user_id = calls[c].user_id
               THEN /\ after.diagnosis_context.plant_vitals =
                         [name |-> plants[before.plant_id].name,
                          care_schedule |-> plants[before.plant_id].care_schedule]
                    /\ after.status = before.status
                    /\ History(after) = History(before)
                    /\ after.diagnosis_context.state = before.diagnosis_context.state
                    /\ ResultOf(after.diagnosis_context) = ResultOf(before.diagnosis_context)
                    /\ id \in DOMAIN store'
                    /\ store'[id].status = after.status
                    /\ store'[id].diagnosis_context = after.diagnosis_context
                    /\ store'[id].updated_at = now
                    /\ calls'[c].pc = "running"
                    /\ calls'[c].nPersist = calls[c].nPersist + 1
               ELSE /\ calls'[c].pc = "done"
                    /\ calls'[c].response = ErrResponse("Plant not found")
                    /\ calls'[c].nPersist = calls[c].nPersist
                    /\ store' = store]_vars

\* A GET_PLANT_VITALS cycle has run after the plant row was rewritten.
C23_Witness ==
  \E c \in CallSlots :
    /\ calls[c].pc = "running"
    /\ calls[c].last.ok /\ calls[c].last.action = "GET_PLANT_VITALS"
    /\ calls[c].pre.diagnosis_context.plant_vitals = [name |-> "n1", care_schedule |-> "cs1"]
    /\ calls[c].session.id \in DOMAIN store
    /\ store[calls[c].session.id].diagnosis_context.plant_vitals =
         [name |-> "n2", care_schedule |-> "cs2"]

\* C24: once start_diagnosis has stored a session, no step changes its
\* stored plant_vitals, whatever happens to the plant row.
C24_VitalsWrittenOnce ==
  [][\A i \in DOMAIN store \cap DOMAIN store' :
       store'[i].diagnosis_context.plant_vitals =
         store[i].diagnosis_context.plant_vitals]_vars

\* The step is a cycle of call c that persisted the session.
PersistStep(c) == CycleStep(c) /\ calls'[c].nPersist = calls[c].nPersist + 1

\* C25: every cycle that validated LOG_STATE, ASK_USER or CONCLUDE, and
\* every GET_PLANT_VITALS cycle that found the plant, persists the session
\* once with the updated_at read from the clock at that step; the stored
\* updated_at never decreases and is never older than created_at.
C25_UpdatedAtRefreshed ==
  /\ [](\A i \in DOMAIN store :
          store[i].created_at <= store[i].updated_at /\ store[i].updated_at <= now)
  /\ [][/\ \A c \in CallSlots :
            /\ (CycleStep(c) /\ calls'[c].last.ok
                   /\ calls'[c].response # ErrResponse("Plant not found"))
                 => PersistStep(c)
            /\ PersistStep(c) =>
                 /\ calls'[c].session.updated_at = now
                 /\ store'[calls'[c].session.id].updated_at = now
        /\ \A i \in DOMAIN store \cap DOMAIN store' :
             /\ store[i].updated_at <= store'[i].updated_at
             /\ store'[i].updated_at # store[i].updated_at =>
                  \E c \in CallSlots : PersistStep(c) /\ calls'[c].session.id = i]_vars

\* A LOG_STATE cycle has stored an updated_at later than created_at.
C25_Witness ==
  \E c \in CallSlots :
    /\ calls[c].pc = "running"
    /\ calls[c].last.ok /\ calls[c].last.action = "LOG_STATE"
    /\ store[calls[c].session.id].created_at < store[calls[c].session.id].updated_at

\* The keys of the context on which two sessions differ.
ChangedKeys(before, after) ==
  { k \in DOMAIN before.diagnosis_context \cup DOMAIN after.diagnosis_context :
      \/ k \notin DOMAIN before.diagnosis_context
      \/ k \notin DOMAIN after.diagnosis_context
      \/ before.diagnosis_context[k] # after.diagnosis_context[k] }

\* The part of the context the arm of an action writes.
WrittenBy(a) ==
  CASE a = "LOG_STATE" -> {"state"}
    [] a = "GET_PLANT_VITALS" -> {"plant_vitals"}
    [] a = "ASK_USER" -> {"conversation_history"}
    [] a = "CONCLUDE" -> {"result"}

\* C27: extraction and validation leave the session alone.  A cycle whose
\* reply is not extracted or not validated ends with the session in
\* memory and the store as they were; a cycle whose reply is validated
\* changes, in memory and in the store, nothing but what the arm of the
\* validated action writes.
C27_ExecuteCodeIsPure ==
  [][\A c \in CallSlots :
       CycleStep(c) =>
         LET before == calls[c].session
             after  == calls'[c].session
         IN  IF FailedReply(c)
               THEN after = before /\ store' = store
               ELSE /\ ChangedKeys(before, after) \subseteq WrittenBy(calls'[c].last.action)
                    /\ after.status # before.status =>
                         calls'[c].last.action \in {"ASK_USER", "CONCLUDE"}
                    /\ \A i \in DOMAIN store :
                         IF i = before.id /\ PersistStep(c)
                           THEN /\ store'[i].status = after.status
                                /\ store'[i].diagnosis_context = after.diagnosis_context
                                /\ store'[i].updated_at = after.updated_at
                           ELSE store'[i] = store[i]]_vars

\* An update call whose reply was extracted but not validated: the session
\* in memory still ends with the answer of the caller and the store has
\* not seen it.
C27_Witness ==
  \E c \in CallSlots :
    /\ Failed(c) /\ calls[c].kind = "update"
    /\ fed[c].given /\ fed[c].ok /\ fed[c].parsed.ok /\ ~calls[c].last.ok
    /\ History(calls[c].session) =
         Append(History(store[calls[c].session.id]), UserTurn(calls[c].message))
    /\ calls[c].session.updated_at = store[calls[c].session.id].updated_at

\* C28: no step changes the id, the plant_id, the created_at or the
\* initial_prompt of a stored session, whatever the AI client returns and
\* whatever happens to the plant row.
C28_IdentityFieldsFrozen ==
  [][\A i \in DOMAIN store \cap DOMAIN store' :
       /\ store'[i].id = store[i].id
       /\ store'[i].plant_id = store[i].plant_id
       /\ store'[i].created_at = store[i].created_at
       /\ store'[i].diagnosis_context.initial_prompt =
            store[i].diagnosis_context.initial_prompt]_vars

\* A LOG_STATE payload with the keys initial_prompt and plant_id has been
\* persisted and an update call has come after it.
C28_Witness ==
  \E i \in DOMAIN store :
    /\ Index(JObj(store[i].diagnosis_context.state), "initial_prompt") = JStr("roots rotting")
    /\ Index(JObj(store[i].diagnosis_context.state), "plant_id") = JStr("p2")
    /\ store[i].diagnosis_context.initial_prompt = "leaves yellowing"
    /\ store[i].plant_id = "p1"
    /\ \E c \in CallSlots : calls[c].pc = "done" /\ calls[c].kind = "update"
                              /\ calls[c].session.id = i /\ calls[c].nPersist > 0

-----------------------------------------------------------------------------
(* Properties of calls that run at the same time and of the listing        *)

\* The step is made by a call on session i: a start call that creates it,
\* an update call that loads it, or a cycle of a call that holds it.
StepOn(i) ==
  \E c \in DOMAIN calls :
    /\ calls'[c] # calls[c]
    /\ \/ calls'[c].pc \in {"running", "done"} /\ calls'[c].session.id = i
       \/ calls'[c].pc = "rejected" /\ calls'[c].target = i

\* C26: a step of a call on one session leaves every other stored session
\* as it is, status, context and updated_at, and leaves the call of the
\* other caller as it is; a stored session changes only in a persisting
\* cycle of a call on it, which writes what that call holds in memory.
C26_SessionsIndependent ==
  [][/\ \A i \in DOMAIN store :
          ~StepOn(i) => i \in DOMAIN store' /\ store'[i] = store[i]
     /\ \A i \in DOMAIN store \cap DOMAIN store' :
          store'[i] # store[i] =>
            \E c \in DOMAIN calls :
              /\ PersistStep(c) /\ calls[c].session.id = i
              /\ store'[i].status = calls'[c].session.status
              /\ store'[i].diagnosis_context = calls'[c].session.diagnosis_context
              /\ store'[i].updated_at = calls'[c].session.updated_at
     /\ \A c, d \in DOMAIN calls :
          (c # d /\ calls'[c] # calls[c]) =>
            calls'[d] = calls[d] /\ fed'[d] = fed[d]]_vars

\* Two calls in progress on two sessions, one of which has been concluded
\* by its call while the other call was waiting for the AI client.
C26_Witness ==
  \E c, d \in DOMAIN calls :
    /\ calls[c].pc = "done" /\ calls[c].response.type = "conclude"
    /\ calls[d].pc = "running" /\ calls[d].kind = "update"
    /\ calls[c].session.id # calls[d].session.id
    /\ store[calls[c].session.id].status = Completed
    /\ store[calls[d].session.id].status = PendingUserInput
    /\ store[calls[d].session.id] = calls[d].pre
    /\ calls[d].pre.updated_at < store[calls[c].session.id].updated_at

\* The stored sessions of a plant.
SessionsOfPlant(plant_id) ==
  { store[i] : i \in { j \in DOMAIN store : store[j].plant_id = plant_id } }

\* C29: a listing call made by the owner of the plant returns every
\* stored session of that plant once and no other session, a later
\* created_at before an earlier one; made for a plant that is not stored
\* or not owned by the caller it fails with Plant not found; it changes
\* no stored session.
C29_ListNewestFirst ==
  [][\A c \in DOMAIN calls :
       (calls[c] = Idle /\ calls'[c] # Idle /\ calls'[c].kind = "list") =>
         LET plant_id == calls'[c].target
             user_id  == calls'[c].user_id
         IN  /\ store' = store
             /\ IF plant_id \in DOMAIN plants /\ plants[plant_id].user_id = user_id
                  THEN /\ calls'[c].pc = "listed"
                       /\ LET q == calls'[c].response.sessions
                          IN  /\ { q[k] : k \in 1..Len(q) } = SessionsOfPlant(plant_id)
                              /\ Len(q) = Cardinality(SessionsOfPlant(plant_id))
                              /\ \A k \in 1..(Len(q) - 1) :
                                   q[k].created_at >= q[k + 1].created_at
                  ELSE /\ calls'[c].pc = "rejected"
                       /\ calls'[c].response = ErrResponse("Plant not found")]_vars

\* A listing of two sessions created at different times, while a session
\* of another plant is stored.
C29_Witness ==
  \E c \in DOMAIN calls :
    /\ calls[c].pc = "listed"
    /\ Len(calls[c].response.sessions) = 2
    /\ calls[c].response.sessions[1].created_at > calls[c].response.sessions[2].created_at
    /\ \E i \in DOMAIN store : store[i].plant_id # calls[c].target

\* Two update calls on one session that both loaded it before either
\* persisted.
Overlap(c, d) ==
  /\ c # d
  /\ calls[c].pc \in {"running", "done"} /\ calls[c].kind = "update"
  /\ calls[d].pc \in {"running", "done"} /\ calls[d].kind = "update"
  /\ calls[c].session.id = calls[d].session.id
  /\ calls[c].pre = calls[d].pre

\* The turns of a history after its first n.
After(h, n) == { h[k] : k \in (n + 1)..Len(h) }

\* C30: no lock is held on a session and a persist writes the whole
\* status and context of the session the call holds in memory, whatever
\* the row holds by then; so of two update calls that overlap on a session
\* the stored history holds, after the turns both loaded, the answer of
\* one of them at most, never both.
C30_OverlappingUpdatesOverwrite ==
  /\ [][\A c \in DOMAIN calls :
          (PersistStep(c) /\ calls[c].session.id \in DOMAIN store) =>
            /\ store'[calls[c].session.id].status = calls'[c].session.status
            /\ store'[calls[c].session.id].diagnosis_context =
                 calls'[c].session.diagnosis_context]_vars
  /\ [](\A c, d \in DOMAIN calls :
          Overlap(c, d) =>
            LET loaded == History(calls[c].pre)
                stored == History(store[calls[c].session.id])
            IN  /\ IsPrefix(loaded, stored)
                /\ ~({UserTurn(calls[c].message), UserTurn(calls[d].message)}
                       \subseteq After(stored, Len(loaded))))

\* Of two overlapping update calls the first has concluded the session
\* and the second has persisted after it: the stored status is back to
\* PendingUserInput, the result and the answer of the first are gone.
C30_Witness ==
  \E c, d \in DOMAIN calls :
    /\ Overlap(c, d)
    /\ calls[c].pc = "done" /\ calls[c].response.type = "conclude"
    /\ calls[d].nPersist > 0
    /\ store[calls[c].session.id].status = PendingUserInput
    /\ ~HasResult(store[calls[c].session.id])
    /\ History(store[calls[c].session.id]) =
         History(calls[c].pre)
           \o <<UserTurn(calls[d].message), AssistantTurn("q1")>>

\* Of two overlapping update calls the first has stored its answer and a
\* question and the second has persisted after it: the stored history is
\* shorter than the one the first call stored.
C30_ShorterHistory ==
  \E c, d \in DOMAIN calls :
    /\ Overlap(c, d)
    /\ calls[c].pc = "done" /\ calls[c].response.type = "ask"
    /\ calls[d].pc = "done" /\ calls[d].response.type = "conclude"
    /\ Len(History(store[calls[c].session.id])) < Len(History(calls[c].session))

-----------------------------------------------------------------------------
(* Properties of the stored conversation under sequential calls            *)

\* The role the k-th turn of an alternating history has.
RoleAt(k) == IF k % 2 = 1 THEN "user" ELSE "assistant"

\* C31: in every stored session the roles of conversation_history go user,
\* assistant, user, .. from the first turn on; no two user turns follow
\* one another.
C31_RolesAlternate ==
  \A i \in DOMAIN store :
    \A k \in 1..Len(History(store[i])) : History(store[i])[k].role = RoleAt(k)

\* C32: a stored session that is PendingUserInput, with no call on it in
\* progress, ends its history with an assistant turn, the question that
\* was returned to the caller last.
C32_PendingEndsWithQuestion ==
  \A i \in DOMAIN store :
    ( /\ store[i].status = PendingUserInput
      /\ \A c \in DOMAIN calls : ~(InFlight(c) /\ SessionOf(c) = i) ) =>
        /\ History(store[i])[Len(History(store[i]))].role = "assistant"
        /\ \A c \in DOMAIN calls :
             ( calls[c].pc = "done" /\ calls[c].session.id = i
               /\ calls[c].response.type = "ask" ) =>
               History(store[i])[Len(History(store[i]))] =
                 AssistantTurn(calls[c].response.question)

\* C33: a LOG_STATE cycle, whatever the keys of its payload, leaves the
\* status of the session and the initial_prompt, conversation_history,
\* plant_vitals and result of its context as they were, in memory and in
\* the store; the payload entries are found in the state.
C33_LogStateWritesOnlyState ==
  [][\A c \in CallSlots :
       (CycleStep(c) /\ Validated(c, "LOG_STATE")) =>
         LET before == calls[c].session
             after  == calls'[c].session
             stored == store'[before.id]
             payload == calls'[c].last.payload.o
         IN  /\ after.status = before.status
             /\ after.diagnosis_context.initial_prompt = before.diagnosis_context.initial_prompt
             /\ History(after) = History(before)
             /\ after.diagnosis_context.plant_vitals = before.diagnosis_context.plant_vitals
             /\ HasResult(after) = HasResult(before)
             /\ ResultOf(after.diagnosis_context) = ResultOf(before.diagnosis_context)
             /\ DOMAIN after.diagnosis_context = DOMAIN before.diagnosis_context
             /\ \A k \in DOMAIN payload : after.diagnosis_context.state[k] = payload[k]
             /\ stored.status = after.status
             /\ stored.diagnosis_context = after.diagnosis_context]_vars

\* A LOG_STATE payload with the keys result, conversation_history,
\* plant_vitals, initial_prompt and status has been persisted: the keys
\* are in the state and the session is still pending, without a result.
C33_Witness ==
  \E c \in CallSlots :
    /\ calls[c].pc = "running"
    /\ calls[c].last.ok /\ calls[c].last.action = "LOG_STATE"
    /\ {"result", "conversation_history", "plant_vitals", "initial_prompt", "status"}
         \subseteq DOMAIN store[calls[c].session.id].diagnosis_context.state
    /\ store[calls[c].session.id].status = PendingUserInput
    /\ ~HasResult(store[calls[c].session.id])

-----------------------------------------------------------------------------
(* Properties of the calls and of their responses                          *)

\* Call c has returned an Ask or a Conclude response.
Succeeded(c) ==
  calls[c].pc = "done" /\ calls[c].response.type \in {"ask", "conclude"}

\* The step is a start call that got past its plant lookup.
StartStep(c) ==
  calls[c] = Idle /\ calls'[c].pc = "running" /\ calls'[c].kind = "start"

\* C34: a call that has returned an Ask or Conclude response has made as
\* many store updates as AI calls; each cycle makes its AI call and then
\* its one update, so a call waiting for an AI call has persisted every
\* cycle before; a start call creates one row, before its first AI call,
\* and no other step creates a row.
C34_OnePersistPerCycle ==
  /\ [](\A c \in CallSlots :
          /\ Succeeded(c) => calls[c].nAi >= 1 /\ calls[c].nPersist = calls[c].nAi
          /\ calls[c].pc = "running" => calls[c].nPersist = calls[c].nAi)
  /\ [][/\ \A c \in CallSlots :
            /\ CycleStep(c) =>
                 /\ calls'[c].nAi = calls[c].nAi + 1
                 /\ \/ Failed(c)' /\ calls'[c].nPersist = calls[c].nPersist
                                  /\ store' = store
                    \/ ~Failed(c)' /\ PersistStep(c)
                                   /\ store'[calls[c].session.id].diagnosis_context =
                                        calls'[c].session.diagnosis_context
                 /\ DOMAIN store' = DOMAIN store
            /\ StartStep(c) =>
                 /\ calls'[c].nAi = 0 /\ calls'[c].nPersist = 0
                 /\ calls'[c].session.id \notin DOMAIN store
                 /\ DOMAIN store' = DOMAIN store \cup {calls'[c].session.id}
                 /\ store'[calls'[c].session.id] = calls'[c].session
        /\ DOMAIN store' # DOMAIN store => \E c \in CallSlots : StartStep(c)]_vars

\* A start call that returned a question after a LOG_STATE cycle: two AI
\* calls, two updates.
C34_Witness ==
  \E c \in CallSlots :
    /\ Succeeded(c) /\ calls[c].kind = "start"
    /\ calls[c].nAi = 2 /\ calls[c].nPersist = 2

\* C35: no stored session and no session a call holds in memory has the
\* status Cancelled: each is PendingUserInput or Completed.
C35_NeverCancelled ==
  /\ \A i \in DOMAIN store : store[i].status \in {PendingUserInput, Completed}
  /\ \A c \in Cycling : calls[c].session.status \in {PendingUserInput, Completed}

\* An update call has been turned away from a session that a Conclude
\* cycle closed.
C35_Witness ==
  \E c \in CallSlots :
    /\ calls[c].pc = "rejected" /\ calls[c].kind = "update"
    /\ calls[c].response = ErrResponse("Cannot update a completed or cancelled diagnosis")
    /\ store[calls[c].target].status = Completed

\* C36: when a cycle returns an Ask or a Conclude response, the store
\* holds the session of the returned diagnosis_id with the status and the
\* context the call has just written.
C36_SuccessMeansStored ==
  [][\A c \in CallSlots :
       (CycleStep(c) /\ Succeeded(c)') =>
         /\ calls'[c].response.diagnosis_id \in DOMAIN store'
         /\ store'[calls'[c].response.diagnosis_id].status = calls'[c].session.status
         /\ store'[calls'[c].response.diagnosis_id].diagnosis_context =
              calls'[c].session.diagnosis_context]_vars

\* The step is an update call that got past its checks.
UpdateStep(c) ==
  calls[c] = Idle /\ calls'[c].pc = "running" /\ calls'[c].kind = "update"

\* C37: a start call holds, from its create on, the session it created,
\* an update call holds the session stored under the id it was made for,
\* no cycle changes the id of the session a call holds, and the Ask or
\* Conclude response of a call carries that id.
C37_OneIdPerConversation ==
  /\ [](/\ \A i \in DOMAIN store : store[i].id = i
        /\ \A c \in DOMAIN calls :
             calls[c].pc \in {"running", "done"} =>
               /\ calls[c].session.id = calls[c].pre.id
               /\ Succeeded(c) => calls[c].response.diagnosis_id = calls[c].session.id)
  /\ [][\A c \in DOMAIN calls :
          /\ StartStep(c) =>
               /\ calls'[c].session.id \notin DOMAIN store
               /\ store'[calls'[c].session.id] = calls'[c].session
          /\ UpdateStep(c) =>
               /\ calls'[c].pre.id \in DOMAIN store
               /\ calls'[c].pre = store[calls'[c].pre.id]
          /\ CycleStep(c) => calls'[c].session.id = calls[c].session.id]_vars

\* Two callers have each been asked a question, one about the session it
\* started and one about a session it updated, each under its own id.
C37_Witness ==
  \E c, d \in DOMAIN calls :
    /\ Succeeded(c) /\ calls[c].kind = "start" /\ calls[c].response.diagnosis_id = "s1"
    /\ Succeeded(d) /\ calls[d].kind = "update" /\ calls[d].response.diagnosis_id = "s2"
    /\ History(store["s2"])[Len(History(store["s2"])) - 1] = UserTurn(calls[d].message)

-----------------------------------------------------------------------------
(* The order of the checks of execute_code                                 *)

\* C38: execute_code reports the first of its checks that fails, in the
\* order extraction, action, presence of the payload, shape of the
\* payload: a text without a value fails with the error of the
\* extractor; a value without an action string fails on the action and
\* one that names no known action fails as an invalid action, a null or
\* absent payload notwithstanding; a known action with a null or absent
\* payload fails as a missing payload, never with the message of a
\* payload rule; only then the rule of the action is applied.
C38_CheckOrder ==
  \A c \in Cycling :
    (fed[c].given /\ fed[c].ok) =>
      IF ~fed[c].parsed.ok
        THEN Failed(c) /\ calls[c].response.error = fed[c].parsed.err
      ELSE LET action == Index(fed[c].parsed.value, "action")
           IN  IF ~is_str(action)
                 THEN /\ Failed(c)
                      /\ calls[c].response.error = "Missing action field in AI response"
               ELSE IF action.s \notin RecognizedNames
                 THEN Failed(c) /\ calls[c].response.error = "Invalid action"
               ELSE IF PayloadOf(c) = JNull
                 THEN /\ Failed(c)
                      /\ calls[c].response.error = "Missing payload field in AI response"
               ELSE IF validate_payload(action.s, PayloadOf(c)) # "ok"
                 THEN /\ Failed(c)
                      /\ calls[c].response.error \in InvalidPayloadMessages
                      /\ calls[c].response.error = validate_payload(action.s, PayloadOf(c))
               ELSE /\ calls[c].last.ok /\ calls[c].last.action = action.s
                    /\ calls[c].last.payload = PayloadOf(c)

\* A call that failed as an invalid action on an object whose action is
\* unknown and whose payload is null.
C38_Witness ==
  \E c \in CallSlots :
    /\ Failed(c) /\ Extracted(c)
    /\ Index(fed[c].parsed.value, "action") = JStr("WATER_PLANT")
    /\ "payload" \in DOMAIN fed[c].parsed.value.o
    /\ PayloadOf(c) = JNull
    /\ calls[c].response.error = "Invalid action"

=============================================================================
